---- MODULE Spec2Model ----
(***************************************************************************)
(* serverless-aws-alias-v4: the alias reconciliation workflow of           *)
(* src/src/index.js (the per-function stage-variable revision, lines       *)
(* 1131-2266), as a state machine.                                         *)
(*                                                                         *)
(* Strings that the plugin edits character by character (alias name,       *)
(* logical function names, key templates, gateway and resource ids,        *)
(* methods, paths) are sequences of one-character strings; fixed literals  *)
(* that are only concatenated may be one token of such a sequence.         *)
(* The remote control plane (Lambda, API Gateway, STS) is the environment: *)
(* every call either answers from the remote state or fails.               *)
(***************************************************************************)
EXTENDS Integers, Sequences, FiniteSets, TLC

VARIABLES
  config,     \* this.config (lines 1143-1160, 1199-1227), accountId and resource cache included
  IS_FORCE,   \* the --force flag (line 1136)
  service,    \* this.serverless.service.functions, in declaration order
  lambda,     \* remote Lambda state, by physical function name
  policy,     \* remote Lambda resource policies: a set of statements
  rest,       \* remote REST gateway: resources, integrations, deployments, stage
  ws,         \* remote WebSocket gateway: routes, integrations, deployments, stage
  pc,         \* position of the workflow
  loc,        \* local variables of the running handlers
  outcome,    \* "running", "returned" or "raised": how deployAliasWorkflow ended
  calls,      \* history: the remote calls issued so far, with their results
  permCalls,  \* history: the addPermission / removePermission requests issued
  uriWrites,  \* history: the integration URIs written
  faults,     \* number of injected remote failures so far
  lambda0,    \* history: the remote Lambda state when the run started
  stageWrites,\* history: the stage variables the stage requests carried
  probe       \* results of the pure helpers under the helper specification

vars == <<config, IS_FORCE, service, lambda, policy, rest, ws, pc, loc, outcome,
          calls, permCalls, uriWrites, faults, lambda0, stageWrites, probe>>

\* ---------------------------------------------------------------- bounds

\* Remote failures injected in one run.
MaxFaults == 1

\* Published versions a function may have before the run starts.
MaxInitVersions == 1

\* ------------------------------------------------------ program constants

\* The '$LATEST' version marker (line 1797), and JS null / undefined.
LATEST == 0
NULL == -1

\* MAX_RETRIES of waitForFunctionUpdateToComplete.
MAX_RETRIES == 30

\* MaxItems of listVersionsByFunction.
MaxItems == 20

\* this.provider.getRegion() (line 1148), and IDENTITY.Account of
\* getCallerIdentity (line 1533)
REGION == "us-east-1"
ACCOUNT == <<"123456789012">>

\* ---------------------------------------------------------------- strings

Lower == {"a","b","c","d","e","f","g","h","i","j","k","l","m",
          "n","o","p","q","r","s","t","u","v","w","x","y","z"}
Upper == {"A","B","C","D","E","F","G","H","I","J","K","L","M",
          "N","O","P","Q","R","S","T","U","V","W","X","Y","Z"}
Digit == {"0","1","2","3","4","5","6","7","8","9"}

\* /[^A-Za-z0-9_]/ and /[^a-zA-Z0-9-_]/ : the characters the two regular
\* expressions leave alone.
KeyClass == Lower \cup Upper \cup Digit \cup {"_"}
IdClass == Lower \cup Upper \cup Digit \cup {"-", "_"}

\* s.replace(/[^class]/g, by)
ReplaceOutside(s, class, by) ==
  [n \in 1..Len(s) |-> IF s[n] \in class THEN s[n] ELSE by]

StartsWithAt(s, pat, n) ==
  /\ n + Len(pat) - 1 <= Len(s)
  /\ SubSeq(s, n, n + Len(pat) - 1) = pat

\* s.replace(/pat/g, by) for a literal pattern, scanning left to right.
RECURSIVE ReplaceFrom(_, _, _, _)
ReplaceFrom(s, pat, by, n) ==
  IF n > Len(s) THEN <<>>
  ELSE IF StartsWithAt(s, pat, n)
       THEN by \o ReplaceFrom(s, pat, by, n + Len(pat))
       ELSE <<s[n]>> \o ReplaceFrom(s, pat, by, n + 1)

ReplaceAll(s, pat, by) == ReplaceFrom(s, pat, by, 1)

\* path.startsWith('/') ? path : `/${path}`
NormalizePath(path) ==
  IF Len(path) > 0 /\ path[1] = "/" THEN path ELSE <<"/">> \o path

\* method.toUpperCase(), one character at a time.
UpperOf(c) ==
  CASE c = "a" -> "A" [] c = "b" -> "B" [] c = "c" -> "C" [] c = "d" -> "D"
    [] c = "e" -> "E" [] c = "f" -> "F" [] c = "g" -> "G" [] c = "h" -> "H"
    [] c = "i" -> "I" [] c = "j" -> "J" [] c = "k" -> "K" [] c = "l" -> "L"
    [] c = "m" -> "M" [] c = "n" -> "N" [] c = "o" -> "O" [] c = "p" -> "P"
    [] c = "q" -> "Q" [] c = "r" -> "R" [] c = "s" -> "S" [] c = "t" -> "T"
    [] c = "u" -> "U" [] c = "v" -> "V" [] c = "w" -> "W" [] c = "x" -> "X"
    [] c = "y" -> "Y" [] c = "z" -> "Z" [] OTHER -> c
ToUpperCase(s) == [n \in 1..Len(s) |-> UpperOf(s[n])]

FN_PLACEHOLDER == <<"{","f","u","n","c","t","i","o","n","N","a","m","e","}">>
ALIAS_PLACEHOLDER == <<"{","a","l","i","a","s","N","a","m","e","}">>
DEFAULT_TEMPLATE == FN_PLACEHOLDER \o <<"A","l","i","a","s">>
GLOBAL_KEY == <<"a","l","i","a","s">>

\* ------------------------------------------------- per-function stage vars

buildStageVarKeyOfFallbackName(functionName) ==
  LET template == IF config.stageVarKeyTemplate = <<>> THEN DEFAULT_TEMPLATE
                  ELSE config.stageVarKeyTemplate
      key == ReplaceAll(ReplaceAll(template, FN_PLACEHOLDER, <<"f","u","n","c","t","i","o","n">>),
                        ALIAS_PLACEHOLDER, config.alias)
  IN IF config.stageVarSanitize THEN ReplaceOutside(key, KeyClass, "_") ELSE key

\* buildStageVarKey, lines 1434-1444
buildStageVarKey(functionName) ==
  LET template == IF config.stageVarKeyTemplate = <<>> THEN DEFAULT_TEMPLATE
                  ELSE config.stageVarKeyTemplate
      aliasName == config.alias
      name == IF functionName = <<>> THEN <<"f","u","n","c","t","i","o","n">>
              ELSE functionName
      key == ReplaceAll(ReplaceAll(template, FN_PLACEHOLDER, name),
                        ALIAS_PLACEHOLDER, aliasName)
  IN IF config.stageVarSanitize THEN ReplaceOutside(key, KeyClass, "_") ELSE key

StageVarExpr(key) == <<"${stageVariables.">> \o key \o <<"}">>

getStageVarExprLiteralAlias(functionName) == config.alias

getStageVarExprForFunction(functionName) ==
  IF ~config.perFunctionStageVars THEN StageVarExpr(GLOBAL_KEY)
  ELSE StageVarExpr(buildStageVarKey(functionName))

\* --------------------------------------------------- desired configuration

\* Merged environment of getFunctionsForAliasDeployment: provider-level
\* defaults overridden by the function's own mapping.
MergeEnv(providerEnv, functionEnv) ==
  [key \in DOMAIN providerEnv \cup DOMAIN functionEnv |->
     IF key \in DOMAIN functionEnv THEN functionEnv[key] ELSE providerEnv[key]]

PROVIDER_ENV == [A |-> "0"]
ENV_A == [A |-> "1"]
ENV_B == [A |-> "2"]

HttpEvent(path, method) == [type |-> "http", path |-> path, method |-> method]
WebSocketEvent(route) == [type |-> "websocket", route |-> route]

PATH_HI == <<"h","i">>
PATH_IT == <<"/","i","t">>
ROUTE_CONNECT == <<"$connect">>
ROUTE_DEFAULT == <<"$default">>

\* serverless.service.functions: two functions, the first with a REST and a
\* WebSocket event, the second with a REST and a WebSocket event of its own.
ServiceFunctions ==
  << [name |-> <<"f","a">>, functionName |-> "FnA", environment |-> ENV_A,
      events |-> << HttpEvent(PATH_HI, <<"g","e","t">>), WebSocketEvent(ROUTE_CONNECT) >>],
     [name |-> <<"f","-","b">>, functionName |-> "FnB", environment |-> ENV_A,
      events |-> << HttpEvent(PATH_IT, <<"P","O","S","T">>), WebSocketEvent(ROUTE_DEFAULT) >>] >>

PhysicalNames == {"FnA", "FnB"}

\* A selection that keeps the excluded functions.
getFunctionsIgnoringExclusions ==
  [n \in 1..Len(service) |->
     [name |-> service[n].name,
      functionName |-> service[n].functionName,
      environment |-> MergeEnv(PROVIDER_ENV, service[n].environment),
      events |-> service[n].events]]

\* getFunctionsForAliasDeployment (lines 1542-1566)
getFunctionsForAliasDeployment ==
  LET keep(funcDef) == funcDef.name \notin config.excludedFunctions
      kept == SelectSeq(service, keep)
  IN [n \in 1..Len(kept) |->
        [name |-> kept[n].name,
         functionName |-> kept[n].functionName,
         environment |-> MergeEnv(PROVIDER_ENV, kept[n].environment),
         events |-> kept[n].events]]

hasHttpEvents(functionName, functions) ==
  \E n \in 1..Len(functions) :
    /\ functions[n].name = functionName
    /\ \A m \in 1..Len(functions) : functions[m].name = functionName => n <= m
    /\ \E e \in 1..Len(functions[n].events) : functions[n].events[e].type = "http"

hasWebSocketEvents(functionName, functions) ==
  \E n \in 1..Len(functions) :
    /\ functions[n].name = functionName
    /\ \A m \in 1..Len(functions) : functions[m].name = functionName => n <= m
    /\ \E e \in 1..Len(functions[n].events) : functions[n].events[e].type = "websocket"

\* ------------------------------------------------------ remote Lambda state

Cfg(sha, env) ==
  [CodeSha256 |-> sha, Handler |-> "index.handler", Runtime |-> "nodejs",
   MemorySize |-> 128, Timeout |-> 6, Role |-> "role", Environment |-> env,
   Layers |-> <<>>]

CfgChoices == {Cfg("sha1", ENV_A), Cfg("sha2", ENV_A), Cfg("sha1", ENV_B)}

MissingFunction ==
  [exists |-> FALSE, latest |-> Cfg("sha1", ENV_A), LastUpdateStatus |-> "Successful",
   versions |-> <<>>, alias |-> NULL]

ExistingFunction(latest, versions, alias) ==
  [exists |-> TRUE, latest |-> latest, LastUpdateStatus |-> "Successful",
   versions |-> versions, alias |-> alias]

\* A function published MaxItems times, its alias on the newest version,
\* which is the latest configuration: one version more than a page of
\* listVersionsByFunction holds beside $LATEST.
ManyVersions ==
  ExistingFunction(Cfg("sha1", ENV_A),
                   [n \in 1..MaxItems |-> Cfg(IF n % 2 = 0 THEN "sha1" ELSE "sha2", ENV_A)],
                   MaxItems)

\* The states the first function may be in when the run starts: any latest
\* configuration, up to MaxInitVersions published versions, and the alias
\* absent, on $LATEST or on a published version; and the function of many
\* versions, with its alias on the newest, or with no alias and the latest
\* configuration that of the last version of the listing's page.
LambdaStates ==
  {MissingFunction, ManyVersions,
   [ManyVersions EXCEPT !.alias = NULL, !.latest = Cfg("sha2", ENV_A)]} \cup
  UNION { { ExistingFunction(l, vs, a) :
              l \in CfgChoices, a \in {NULL, LATEST} \cup (1..Len(vs)) } :
          vs \in UNION { [1..n -> CfgChoices] : n \in 0..MaxInitVersions } }

\* The states of the second function: missing, never published, converged
\* on version 1, and changed since version 1.
LambdaStatesSecond ==
  { MissingFunction,
    ExistingFunction(Cfg("sha1", ENV_A), <<>>, NULL),
    ExistingFunction(Cfg("sha1", ENV_A), <<Cfg("sha1", ENV_A)>>, 1),
    ExistingFunction(Cfg("sha2", ENV_A), <<Cfg("sha1", ENV_A)>>, 1) }

\* A run-start state is converged for a function when its alias exists and
\* points at a version equal to the latest configuration, whose environment
\* is the desired one.
VersionConfig(fnState, version) ==
  IF version = LATEST THEN fnState.latest ELSE fnState.versions[version]

VersionExists(fnState, version) ==
  fnState.exists /\ (version = LATEST \/ version \in 1..Len(fnState.versions))

\* listVersionsByFunction: the first MaxItems entries, $LATEST first, then
\* the published versions in ascending order.
ListVersions(fnState) ==
  LET all == <<LATEST>> \o [n \in 1..Len(fnState.versions) |-> n]
  IN SubSeq(all, 1, IF Len(all) < MaxItems THEN Len(all) ELSE MaxItems)

\* ------------------------------------------------------------ the workflow

Call(op, fn, res) == [op |-> op, fn |-> fn, res |-> res]

\* The results a remote call may have: its answer from the remote state, or
\* an injected failure.
Results == IF faults < MaxFaults THEN {"ok", "err"} ELSE {"ok"}
ResultsNotFound == IF faults < MaxFaults THEN {"ok", "err", "nf"} ELSE {"ok"}
Spend(r) == faults' = IF r = "ok" THEN faults ELSE faults + 1

Goto(p, l, o) == pc' = p /\ loc' = l /\ outcome' = o

Locals ==
  [FUNCTIONS |-> <<>>, i |-> 0, EXISTING_ALIAS |-> NULL, LATEST_VERSION |-> NULL,
   COMPARE_VERSION |-> NULL, LATEST_CONFIG |-> NULL, version |-> NULL, retries |-> 0,
   CREATED_ALIASES |-> <<>>, FAILED_FUNCTIONS |-> <<>>,
   ALIASES |-> <<>>, j |-> 0, k |-> 0, LISTING |-> {}, DEPLOYMENT |-> NULL]

FUNCTION == loc.FUNCTIONS[loc.i]

\* Leaving the body of the for loop of createOrUpdateFunctionAliases: the
\* per-function locals go out of scope.
Reset(l) ==
  [l EXCEPT !.EXISTING_ALIAS = NULL, !.LATEST_VERSION = NULL, !.COMPARE_VERSION = NULL,
            !.LATEST_CONFIG = NULL, !.version = NULL, !.retries = 0]

\* A catch that logs and does not rethrow.
RaiseSwallowed(l) == Goto("done", l, "returned")

\* catch of deployAliasWorkflow, lines 1508-1512
Raise(l) == Goto("done", l, "raised")
Return(l) == Goto("done", l, "returned")

\* deployAliasWorkflow, after createOrUpdateFunctionAliases returned (lines
\* 1475-1501): nothing to synchronize, the REST pass, or the WebSocket pass.
FilterAliases(created, functions, isHttp) ==
  LET keep(alias) == IF isHttp THEN hasHttpEvents(alias.name, functions)
                     ELSE hasWebSocketEvents(alias.name, functions)
  IN SelectSeq(created, keep)

AfterRestPass(l) ==
  LET WEBSOCKET_ALIASES == FilterAliases(l.CREATED_ALIASES, l.FUNCTIONS, FALSE)
  IN IF Len(WEBSOCKET_ALIASES) > 0 /\ config.websocketApiId # <<>>
     THEN Goto("getWebSocketApiRoutes",
               [l EXCEPT !.ALIASES = WEBSOCKET_ALIASES, !.j = 0, !.k = 0, !.LISTING = {},
                         !.DEPLOYMENT = NULL], "running")
     ELSE Return([l EXCEPT !.ALIASES = <<>>, !.j = 0, !.k = 0, !.LISTING = {},
                           !.DEPLOYMENT = NULL])

AfterAliasLoop(l) ==
  LET HTTP_ALIASES == FilterAliases(l.CREATED_ALIASES, l.FUNCTIONS, TRUE)
  IN IF Len(l.CREATED_ALIASES) = 0 THEN Return(l)
     ELSE IF Len(HTTP_ALIASES) > 0 /\ config.restApiId # <<>>
     THEN Goto("getApiGatewayResources", [l EXCEPT !.ALIASES = HTTP_ALIASES], "running")
     ELSE AfterRestPass(l)

\* The next iteration of the for loop of createOrUpdateFunctionAliases.
NextFunction(l) ==
  IF l.i < Len(l.FUNCTIONS)
  THEN Goto("getExistingAlias", [Reset(l) EXCEPT !.i = l.i + 1], "running")
  ELSE AfterAliasLoop(Reset(l))

\* A loop-body catch that does not record the function, and one that rethrows.
FailFunctionUnrecorded(l) == NextFunction(l)
FailFunctionAbortsRun(l) == Raise(l)

\* A catch that lists the function as failed and still makes its record.
FailFunctionStillRecorded(l) ==
  NextFunction([l EXCEPT !.FAILED_FUNCTIONS = Append(l.FAILED_FUNCTIONS, FUNCTION.functionName),
                         !.CREATED_ALIASES = Append(l.CREATED_ALIASES,
     [functionName |-> FUNCTION.functionName, name |-> FUNCTION.name,
      aliasName |-> config.alias, version |-> LATEST, events |-> FUNCTION.events])])

\* catch of the loop body (lines 1629-1636)
FailFunction(l) ==
  NextFunction([l EXCEPT !.FAILED_FUNCTIONS = Append(l.FAILED_FUNCTIONS, FUNCTION.functionName)])

\* A record that holds the version the listing gave, not the one aliased.
PushAliasOfListedVersion(l, version) ==
  NextFunction([l EXCEPT !.CREATED_ALIASES = Append(l.CREATED_ALIASES,
     [functionName |-> FUNCTION.functionName, name |-> FUNCTION.name,
      aliasName |-> config.alias, version |-> l.LATEST_VERSION, events |-> FUNCTION.events])])

\* lines 1614-1628
PushAlias(l, version) ==
  NextFunction([l EXCEPT !.CREATED_ALIASES = Append(l.CREATED_ALIASES,
     [functionName |-> FUNCTION.functionName, name |-> FUNCTION.name,
      aliasName |-> config.alias, version |-> version, events |-> FUNCTION.events])])

\* A decision that publishes whatever the Change Detector answered.
AfterDetectAlwaysPublishing(l, HAS_CHANGES) ==
  Goto("updateFunctionConfiguration", l, "running")

\* A decision that takes every answer of the Change Detector for 'unchanged'.
AfterDetectAssumingUnchanged(l, HAS_CHANGES) ==
  IF l.EXISTING_ALIAS = NULL
  THEN Goto("createOrUpdateAlias", [l EXCEPT !.version = l.LATEST_VERSION], "running")
  ELSE NextFunction(l)

\* A decision that aliases the unchanged function whose alias exists.
AfterDetectNeverSkipping(l, HAS_CHANGES) ==
  IF HAS_CHANGES THEN Goto("updateFunctionConfiguration", l, "running")
  ELSE Goto("createOrUpdateAlias", [l EXCEPT !.version = l.LATEST_VERSION], "running")

\* lines 1591-1605, once HAS_CHANGES is known
AfterDetect(l, HAS_CHANGES) ==
  IF HAS_CHANGES THEN Goto("updateFunctionConfiguration", l, "running")
  ELSE IF l.EXISTING_ALIAS = NULL
  THEN Goto("createOrUpdateAlias", [l EXCEPT !.version = l.LATEST_VERSION], "running")
  ELSE NextFunction(l)

\* A choice that runs the Change Detector whether or not --force is given.
ChooseVersionIgnoringForce(l) ==
  IF l.LATEST_VERSION = NULL
  THEN Goto("updateFunctionConfiguration", l, "running")
  ELSE Goto("haveFunctionChanges",
            [l EXCEPT !.COMPARE_VERSION =
               IF l.EXISTING_ALIAS # NULL THEN l.EXISTING_ALIAS ELSE l.LATEST_VERSION],
            "running")

\* lines 1579-1589, once LATEST_VERSION is known
ChooseVersion(l) ==
  IF IS_FORCE /\ l.LATEST_VERSION # NULL
  THEN Goto("createOrUpdateAlias", [l EXCEPT !.version = l.LATEST_VERSION], "running")
  ELSE IF l.LATEST_VERSION = NULL
  THEN Goto("updateFunctionConfiguration", l, "running")
  ELSE Goto("haveFunctionChanges",
            [l EXCEPT !.COMPARE_VERSION =
               IF l.EXISTING_ALIAS # NULL THEN l.EXISTING_ALIAS ELSE l.LATEST_VERSION],
            "running")

\* A comparison that takes the layers in the order they are attached.
ConfigsDifferInLayerOrder(LATEST_CONFIG, versionConfig, CONFIG_ENV) ==
  LET CURRENT_ENV == versionConfig.Environment
      LATEST_ENV == LATEST_CONFIG.Environment
  IN \/ LATEST_CONFIG.CodeSha256 # versionConfig.CodeSha256
     \/ LATEST_CONFIG.Handler # versionConfig.Handler
     \/ LATEST_CONFIG.Runtime # versionConfig.Runtime
     \/ LATEST_CONFIG.MemorySize # versionConfig.MemorySize
     \/ LATEST_CONFIG.Timeout # versionConfig.Timeout
     \/ LATEST_CONFIG.Role # versionConfig.Role
     \/ DOMAIN CURRENT_ENV # DOMAIN LATEST_ENV
     \/ DOMAIN CURRENT_ENV # DOMAIN CONFIG_ENV
     \/ \E key \in DOMAIN CURRENT_ENV : CURRENT_ENV[key] # LATEST_ENV[key]
     \/ \E key \in DOMAIN CURRENT_ENV : CURRENT_ENV[key] # CONFIG_ENV[key]
     \/ versionConfig.Layers # LATEST_CONFIG.Layers

\* haveFunctionChanges, lines 1672-1699: the comparisons of the latest
\* configuration, the comparison version and the desired environment. The
\* sorted ARN lists of lines 1697-1699 are equal exactly when every ARN
\* occurs as often in one as in the other.
ConfigsDiffer(LATEST_CONFIG, versionConfig, CONFIG_ENV) ==
  LET CURRENT_ENV == versionConfig.Environment
      LATEST_ENV == LATEST_CONFIG.Environment
      Arns(layers) == {layers[n] : n \in 1..Len(layers)}
      Times(arn, layers) == Cardinality({n \in 1..Len(layers) : layers[n] = arn})
  IN \/ LATEST_CONFIG.CodeSha256 # versionConfig.CodeSha256
     \/ LATEST_CONFIG.Handler # versionConfig.Handler
     \/ LATEST_CONFIG.Runtime # versionConfig.Runtime
     \/ LATEST_CONFIG.MemorySize # versionConfig.MemorySize
     \/ LATEST_CONFIG.Timeout # versionConfig.Timeout
     \/ LATEST_CONFIG.Role # versionConfig.Role
     \/ DOMAIN CURRENT_ENV # DOMAIN LATEST_ENV
     \/ DOMAIN CURRENT_ENV # DOMAIN CONFIG_ENV
     \/ \E key \in DOMAIN CURRENT_ENV : CURRENT_ENV[key] # LATEST_ENV[key]
     \/ \E key \in DOMAIN CURRENT_ENV : CURRENT_ENV[key] # CONFIG_ENV[key]
     \/ \E arn \in Arns(versionConfig.Layers) \cup Arns(LATEST_CONFIG.Layers) :
          Times(arn, versionConfig.Layers) # Times(arn, LATEST_CONFIG.Layers)

\* getLatestFunctionVersion, lines 1793-1797: the greatest numbered version
\* of the listing, or '$LATEST' when it holds none.
NewestOf(listing) ==
  LET numbered == {listing[n] : n \in 1..Len(listing)} \ {LATEST}
  IN IF numbered # {} THEN CHOOSE v \in numbered : \A w \in numbered : w <= v
     ELSE LATEST

AliasUnchanged == UNCHANGED <<config, IS_FORCE, service, policy, rest, ws,
                              permCalls, uriWrites, lambda0, stageWrites, probe>>

\* deployAliasWorkflow, lines 1461-1473: the account identity, then the
\* functions to process.
StartWorkflow ==
  /\ pc = "start"
  /\ \E r \in Results :
       /\ Spend(r)
       /\ calls' = calls \cup {Call("getCallerIdentity", "", r)}
       /\ IF r = "err" THEN config' = config /\ Raise(loc)
          ELSE /\ config' = [config EXCEPT !.accountId = ACCOUNT]
               /\ LET FUNCTIONS == getFunctionsForAliasDeployment
                  IN IF Len(FUNCTIONS) = 0 THEN Return(loc)
                     ELSE Goto("getExistingAlias",
                               [loc EXCEPT !.FUNCTIONS = FUNCTIONS, !.i = 1], "running")
  /\ UNCHANGED <<IS_FORCE, service, lambda, policy, rest, ws, permCalls, uriWrites,
                 lambda0, stageWrites, probe>>

\* getExistingAlias, lines 1650-1659
GetExistingAlias ==
  /\ pc = "getExistingAlias"
  /\ \E r \in Results :
       LET fn == FUNCTION.functionName
           found == lambda[fn].exists /\ lambda[fn].alias # NULL
           res == IF r = "err" THEN "err" ELSE IF found THEN "ok" ELSE "nf"
       IN /\ Spend(r)
          /\ calls' = calls \cup {Call("getAlias", fn, res)}
          /\ IF res = "err" THEN FailFunction(loc)
             ELSE Goto("getFunction",
                       [loc EXCEPT !.EXISTING_ALIAS = IF found THEN lambda[fn].alias ELSE NULL],
                       "running")
  /\ UNCHANGED lambda
  /\ AliasUnchanged

\* getLatestFunctionVersion, lines 1781-1789: does the function exist
GetFunction ==
  /\ pc = "getFunction"
  /\ \E r \in Results :
       LET fn == FUNCTION.functionName
           res == IF r = "err" THEN "err" ELSE IF lambda[fn].exists THEN "ok" ELSE "nf"
       IN /\ Spend(r)
          /\ calls' = calls \cup {Call("getFunction", fn, res)}
          /\ CASE res = "err" -> FailFunction(loc)
               [] res = "nf" -> ChooseVersion([loc EXCEPT !.LATEST_VERSION = NULL])
               [] OTHER -> Goto("listVersionsByFunction", loc, "running")
  /\ UNCHANGED lambda
  /\ AliasUnchanged

\* getLatestFunctionVersion, lines 1791-1801: the newest published version
ListVersionsByFunction ==
  /\ pc = "listVersionsByFunction"
  /\ \E r \in Results :
       LET fn == FUNCTION.functionName
       IN /\ Spend(r)
          /\ calls' = calls \cup {Call("listVersionsByFunction", fn, r)}
          /\ IF r = "err" THEN ChooseVersion([loc EXCEPT !.LATEST_VERSION = LATEST])
             ELSE ChooseVersion([loc EXCEPT !.LATEST_VERSION = NewestOf(ListVersions(lambda[fn]))])
  /\ UNCHANGED lambda
  /\ AliasUnchanged

\* haveFunctionChanges, lines 1663-1664: the latest configuration
HaveFunctionChanges ==
  /\ pc = "haveFunctionChanges"
  /\ \E r \in Results :
       LET fn == FUNCTION.functionName
       IN /\ Spend(r)
          /\ calls' = calls \cup {Call("getFunctionConfiguration", fn, r)}
          /\ IF r = "err" THEN AfterDetect(loc, TRUE)
             ELSE Goto("compareVersion", [loc EXCEPT !.LATEST_CONFIG = lambda[fn].latest],
                       "running")
  /\ UNCHANGED lambda
  /\ AliasUnchanged

\* haveFunctionChanges, lines 1666-1699 and 1713-1716: the configuration of
\* the comparison version, and the comparisons
CompareVersion ==
  /\ pc = "compareVersion"
  /\ \E r \in ResultsNotFound :
       LET fn == FUNCTION.functionName
           res == IF r = "ok" /\ ~VersionExists(lambda[fn], loc.COMPARE_VERSION)
                  THEN "nf" ELSE r
       IN /\ Spend(r)
          /\ calls' = calls \cup {Call("getFunctionConfigurationOfVersion", fn, res)}
          /\ IF res # "ok" THEN AfterDetect(loc, TRUE)
             ELSE IF ConfigsDiffer(loc.LATEST_CONFIG,
                                   VersionConfig(lambda[fn], loc.COMPARE_VERSION),
                                   FUNCTION.environment)
             THEN AfterDetect(loc, TRUE)
             ELSE Goto("compareAlias", loc, "running")
  /\ UNCHANGED lambda
  /\ AliasUnchanged

\* haveFunctionChanges, lines 1701-1712 and 1717-1724: the alias probe that
\* ends the check
CompareAlias ==
  /\ pc = "compareAlias"
  /\ \E r \in Results :
       LET fn == FUNCTION.functionName
           found == lambda[fn].exists /\ lambda[fn].alias # NULL
           res == IF r = "err" THEN "err" ELSE IF found THEN "ok" ELSE "nf"
       IN /\ Spend(r)
          /\ calls' = calls \cup {Call("getAliasInDetector", fn, res)}
          /\ AfterDetect(loc, res = "err")
  /\ UNCHANGED lambda
  /\ AliasUnchanged

PublishUnchanged == UNCHANGED <<config, IS_FORCE, service, policy, rest, ws,
                                permCalls, uriWrites, lambda0, stageWrites, probe>>

\* publishNewFunctionVersion, lines 1732-1735: push the desired environment
UpdateFunctionConfiguration ==
  /\ pc = "updateFunctionConfiguration"
  /\ \E r \in Results :
       LET fn == FUNCTION.functionName
           res == IF r = "err" THEN "err" ELSE IF lambda[fn].exists THEN "ok" ELSE "nf"
       IN /\ Spend(r)
          /\ calls' = calls \cup {Call("updateFunctionConfiguration", fn, res)}
          /\ IF res = "ok"
             THEN /\ lambda' = [lambda EXCEPT ![fn].latest.Environment = FUNCTION.environment,
                                              ![fn].LastUpdateStatus = "InProgress"]
                  /\ Goto("waitForFunctionUpdateToComplete", [loc EXCEPT !.retries = 0],
                          "running")
             ELSE /\ lambda' = lambda
                  /\ FailFunction(loc)
  /\ PublishUnchanged

\* The update the remote side is applying ends, or goes on.
NextUpdateStatus(status) ==
  IF status = "InProgress" THEN {"InProgress", "Successful", "Failed"} ELSE {status}

\* A loop that returns when a read fails.
PollStepReturningOnError(res, status) ==
  CASE res = "nf" -> "throw"
    [] res = "err" -> "return"
    [] status = "Successful" -> "return"
    [] OTHER -> "retry"

\* A loop that returns on any final status, 'Failed' included.
PollStepReturningOnFailure(res, status) ==
  CASE res = "nf" -> "throw"
    [] res = "err" -> "retry"
    [] status \in {"Successful", "Failed"} -> "return"
    [] OTHER -> "retry"

\* waitForFunctionUpdateToComplete, lines 1758-1773: what one poll answer
\* does to the loop: "return", "throw", or "retry".
PollStep(res, status) ==
  CASE res = "nf" -> "throw"
    [] res = "err" -> "retry"
    [] status = "Successful" -> "return"
    [] OTHER -> "retry"

\* waitForFunctionUpdateToComplete: one iteration of the while loop, and the
\* timeout that follows the last one
WaitForFunctionUpdateToComplete ==
  /\ pc = "waitForFunctionUpdateToComplete"
  /\ \E r \in ResultsNotFound :
       \E status \in NextUpdateStatus(lambda[FUNCTION.functionName].LastUpdateStatus) :
         LET fn == FUNCTION.functionName
             step == PollStep(r, status)
             retries == loc.retries + 1
         IN /\ Spend(r)
            /\ calls' = calls \cup
                 {Call("pollFunctionConfiguration", fn, r)} \cup
                 (IF step = "retry" /\ retries >= MAX_RETRIES
                  THEN {Call("waitForFunctionUpdateToComplete", fn, "timeout")} ELSE {})
            /\ lambda' = IF r = "ok" THEN [lambda EXCEPT ![fn].LastUpdateStatus = status]
                         ELSE lambda
            /\ CASE step = "return" -> Goto("publishVersion", [loc EXCEPT !.retries = 0], "running")
                 [] step = "throw" -> FailFunction(loc)
                 [] OTHER -> IF retries < MAX_RETRIES
                             THEN Goto("waitForFunctionUpdateToComplete",
                                       [loc EXCEPT !.retries = retries], "running")
                             ELSE FailFunction(loc)
  /\ PublishUnchanged

\* Lambda publishes no new version when code and configuration are those of
\* the newest published version: it answers with that version.
PublishedVersions(fnState) ==
  IF Len(fnState.versions) > 0 /\ fnState.versions[Len(fnState.versions)] = fnState.latest
  THEN fnState.versions
  ELSE Append(fnState.versions, fnState.latest)

\* publishNewFunctionVersion, lines 1739-1745
PublishVersion ==
  /\ pc = "publishVersion"
  /\ \E r \in Results :
       LET fn == FUNCTION.functionName
           versions == PublishedVersions(lambda[fn])
       IN /\ Spend(r)
          /\ calls' = calls \cup {Call("publishVersion", fn, r)}
          /\ IF r = "ok"
             THEN /\ lambda' = [lambda EXCEPT ![fn].versions = versions]
                  /\ Goto("createOrUpdateAlias", [loc EXCEPT !.version = Len(versions)],
                          "running")
             ELSE /\ lambda' = lambda
                  /\ FailFunction(loc)
  /\ PublishUnchanged

\* createOrUpdateAlias, lines 1808-1837: the probe, and the alias that is
\* already right
CreateOrUpdateAlias ==
  /\ pc = "createOrUpdateAlias"
  /\ \E r \in Results :
       LET fn == FUNCTION.functionName
           found == lambda[fn].exists /\ lambda[fn].alias # NULL
           res == IF r = "err" THEN "err" ELSE IF found THEN "ok" ELSE "nf"
       IN /\ Spend(r)
          /\ calls' = calls \cup {Call("getAliasInManager", fn, res)}
          /\ CASE res = "err" -> FailFunction(loc)
               [] res = "nf" -> Goto("createAlias", loc, "running")
               [] OTHER -> IF lambda[fn].alias # loc.version
                           THEN Goto("updateAlias", loc, "running")
                           ELSE PushAlias(loc, loc.version)
  /\ UNCHANGED lambda
  /\ PublishUnchanged

\* createOrUpdateAlias, lines 1825-1830, inside the try whose catch (lines
\* 1838-1848) answers any ResourceNotFoundException with createAlias: an
\* updateAlias that finds the alias gone (removed after the probe) is
\* followed by createAlias, any other failure is raised.
UpdateAlias ==
  /\ pc = "updateAlias"
  /\ \E r \in ResultsNotFound :
       LET fn == FUNCTION.functionName
       IN /\ Spend(r)
          /\ calls' = calls \cup {Call("updateAlias", fn, r)}
          /\ CASE r = "ok" -> /\ lambda' = [lambda EXCEPT ![fn].alias = loc.version]
                              /\ PushAlias(loc, loc.version)
               [] r = "nf" -> /\ lambda' = [lambda EXCEPT ![fn].alias = NULL]
                              /\ Goto("createAlias", loc, "running")
               [] OTHER -> /\ lambda' = lambda
                           /\ FailFunction(loc)
  /\ PublishUnchanged

\* createOrUpdateAlias, lines 1839-1847
CreateAlias ==
  /\ pc = "createAlias"
  /\ \E r \in Results :
       LET fn == FUNCTION.functionName
       IN /\ Spend(r)
          /\ calls' = calls \cup {Call("createAlias", fn, r)}
          /\ IF r = "ok"
             THEN /\ lambda' = [lambda EXCEPT ![fn].alias = loc.version]
                  /\ PushAlias(loc, loc.version)
             ELSE /\ lambda' = lambda
                  /\ FailFunction(loc)
  /\ PublishUnchanged

\* ------------------------------------------------------------ REST gateway


\* lines 1954-1955 and 2153-2154
IntegrationUri(functionName, stageVarExpr) ==
  <<"arn:aws:apigateway:", REGION, ":lambda:path/2015-03-31/functions/",
    "arn:aws:lambda:", REGION, ":">> \o config.accountId \o <<":function:", functionName, ":">>
  \o stageVarExpr \o <<"/invocations">>

\* The URI the deployed stack gave the integration: the bare function.
OriginalUri(functionName) ==
  <<"arn:aws:apigateway:", REGION, ":lambda:path/2015-03-31/functions/",
    "arn:aws:lambda:", REGION, ":">> \o ACCOUNT \o <<":function:", functionName,
    "/invocations">>

\* addLambdaPermission, lines 1987-1989, and addWebSocketLambdaPermission,
\* lines 2180-2182
QualifiedAlways(alias) == <<alias.functionName, ":">> \o config.alias

QUALIFIED_FUNCTION_NAME(alias) ==
  IF config.perFunctionStageVars THEN <<alias.functionName>>
  ELSE <<alias.functionName, ":">> \o config.alias

APIGATEWAY == <<"a","p","i","g","a","t","e","w","a","y","-">>
APIGATEWAY_TEST == APIGATEWAY \o <<"t","e","s","t","-">>
APIGATEWAY_WS == APIGATEWAY \o <<"w","s","-">>

\* lines 1991-1994
DigitChar(n) ==
  CASE n = 0 -> "0" [] n = 1 -> "1" [] n = 2 -> "2" [] n = 3 -> "3" [] n = 4 -> "4"
    [] n = 5 -> "5" [] n = 6 -> "6" [] n = 7 -> "7" [] n = 8 -> "8" [] OTHER -> "9"

\* A version identifier as the string the SDK carries.
RECURSIVE VersionString(_)
VersionString(v) ==
  IF v = LATEST THEN <<"$","L","A","T","E","S","T">>
  ELSE IF v < 10 THEN <<DigitChar(v)>>
  ELSE VersionString(v \div 10) \o <<DigitChar(v % 10)>>

StageIdWithVersion(alias, resourceId, method) ==
  ReplaceOutside(APIGATEWAY \o config.restApiId \o <<"-">> \o config.alias \o <<"-">>
                 \o method \o <<"-">> \o resourceId \o <<"-">>
                 \o VersionString(alias.version), IdClass, "-")

StageIdRaw(alias, resourceId, method) ==
  APIGATEWAY \o config.restApiId \o <<"-">> \o config.alias \o <<"-">>
  \o method \o <<"-">> \o resourceId

STAGE_STATEMENT_ID(alias, resourceId, method) ==
  ReplaceOutside(APIGATEWAY \o config.restApiId \o <<"-">> \o config.alias \o <<"-">>
                 \o method \o <<"-">> \o resourceId, IdClass, "-")

TEST_STATEMENT_ID(alias, resourceId, method) ==
  ReplaceOutside(APIGATEWAY_TEST \o config.restApiId \o <<"-">> \o config.alias \o <<"-">>
                 \o method \o <<"-">> \o resourceId, IdClass, "-")

\* line 2184
WS_STATEMENT_ID(alias, routeId) ==
  ReplaceOutside(APIGATEWAY_WS \o config.websocketApiId \o <<"-">> \o config.alias
                 \o <<"-">> \o routeId, IdClass, "-")

\* lines 1996-1997, 2029 and 2185
ExecuteApiArn(accountId, apiId, scope, tail) ==
  <<"arn:aws:execute-api:", REGION, ":">> \o accountId \o <<":">> \o apiId \o scope \o tail

\* A source pattern built from the path as the event declares it.
SourceArnOfDeclaredPath(method, path) ==
  ExecuteApiArn(config.accountId, config.restApiId, <<"/*/">>, method \o path)

SOURCE_ARN(method, path) ==
  ExecuteApiArn(config.accountId, config.restApiId, <<"/*/">>, method \o NormalizePath(path))

TEST_SOURCE_ARN(method, path) ==
  ExecuteApiArn(config.accountId, config.restApiId, <<"/test-invoke-stage/">>,
                method \o NormalizePath(path))

WS_SOURCE_ARN(routeKey) ==
  ExecuteApiArn(config.accountId, config.websocketApiId, <<"/*/">>, routeKey)

Statement(target, sid, source) ==
  [FunctionName |-> target, StatementId |-> sid, SourceArn |-> source]

HasStatement(target, sid) ==
  \E st \in policy : st.FunctionName = target /\ st.StatementId = sid

WithoutStatement(target, sid) ==
  {st \in policy : ~(st.FunctionName = target /\ st.StatementId = sid)}

PermCall(op, target, sid) == [op |-> op, FunctionName |-> target, StatementId |-> sid]

\* getHttpEventsForFunction, lines 1891-1902
getHttpEventsForFunction(functionName, functions) ==
  IF \A n \in 1..Len(functions) : functions[n].name # functionName THEN <<>>
  ELSE LET first == CHOOSE n \in 1..Len(functions) :
                      /\ functions[n].name = functionName
                      /\ \A m \in 1..(n - 1) : functions[m].name # functionName
           isHttp(e) == e.type = "http"
           events == SelectSeq(functions[first].events, isHttp)
       IN [n \in 1..Len(events) |->
             [path |-> events[n].path, method |-> ToUpperCase(events[n].method)]]

\* getWebSocketEventsForFunction, lines 2124-2130
getWebSocketEventsForFunction(functionName, functions) ==
  IF \A n \in 1..Len(functions) : functions[n].name # functionName THEN <<>>
  ELSE LET first == CHOOSE n \in 1..Len(functions) :
                      /\ functions[n].name = functionName
                      /\ \A m \in 1..(n - 1) : functions[m].name # functionName
           isWs(e) == e.type = "websocket"
           events == SelectSeq(functions[first].events, isWs)
       IN [n \in 1..Len(events) |-> [route |-> events[n].route]]

\* findResourceByPath, lines 1917-1925: the cached object, or the listing's,
\* which is then cached; found is FALSE when neither has the path.
NO_RESOURCE == [id |-> <<>>, path |-> <<>>]

\* A resolver that caches under the path as given, not under the normalized one.
findResourceCachingDeclaredPath(resources, path) ==
  LET NORMALIZED_PATH == NormalizePath(path)
      cached == {e \in config.apiGatewayResourceCache : e.key = path}
      listed == {res \in resources : res.path = NORMALIZED_PATH}
  IN IF cached # {} THEN [found |-> TRUE, RESOURCE |-> (CHOOSE e \in cached : TRUE).value,
                          cache |-> config.apiGatewayResourceCache]
     ELSE IF listed # {}
     THEN LET RESOURCE == CHOOSE res \in listed : TRUE
          IN [found |-> TRUE, RESOURCE |-> RESOURCE,
              cache |-> config.apiGatewayResourceCache \cup
                        {[key |-> path, value |-> RESOURCE]}]
     ELSE [found |-> FALSE, RESOURCE |-> NO_RESOURCE, cache |-> config.apiGatewayResourceCache]

\* A resolver that answers with some listed resource when none has the path.
findResourceOrAnother(resources, path) ==
  LET NORMALIZED_PATH == NormalizePath(path)
      listed == {res \in resources : res.path = NORMALIZED_PATH}
  IN IF resources = {}
     THEN [found |-> FALSE, RESOURCE |-> NO_RESOURCE, cache |-> config.apiGatewayResourceCache]
     ELSE [found |-> TRUE,
           RESOURCE |-> CHOOSE res \in resources : listed # {} => res \in listed,
           cache |-> config.apiGatewayResourceCache]

findResourceByPath(resources, path) ==
  LET NORMALIZED_PATH == NormalizePath(path)
      cached == {e \in config.apiGatewayResourceCache : e.key = NORMALIZED_PATH}
      listed == {res \in resources : res.path = NORMALIZED_PATH}
  IN IF cached # {} THEN [found |-> TRUE, RESOURCE |-> (CHOOSE e \in cached : TRUE).value,
                          cache |-> config.apiGatewayResourceCache]
     ELSE IF listed # {}
     THEN LET RESOURCE == CHOOSE res \in listed : TRUE
          IN [found |-> TRUE, RESOURCE |-> RESOURCE,
              cache |-> config.apiGatewayResourceCache \cup
                        {[key |-> NORMALIZED_PATH, value |-> RESOURCE]}]
     ELSE [found |-> FALSE, RESOURCE |-> NO_RESOURCE, cache |-> config.apiGatewayResourceCache]

ALIAS == loc.ALIASES[loc.j]
HTTP_EVENT == getHttpEventsForFunction(ALIAS.name, loc.FUNCTIONS)[loc.k]
WEBSOCKET_EVENT == getWebSocketEventsForFunction(ALIAS.name, loc.FUNCTIONS)[loc.k]
RESOURCE_OF_EVENT == findResourceByPath(loc.LISTING, HTTP_EVENT.path).RESOURCE

\* A pass that deploys whether or not skipApiGateway is set.
RECURSIVE RestEventFromAlwaysDeploying(_, _, _)
RestEventFromAlwaysDeploying(l, j, k) ==
  IF j > Len(l.ALIASES)
  THEN Goto("createRestDeployment", [l EXCEPT !.j = 0, !.k = 0], "running")
  ELSE IF k > Len(getHttpEventsForFunction(l.ALIASES[j].name, l.FUNCTIONS))
  THEN RestEventFromAlwaysDeploying(l, j + 1, 1)
  ELSE Goto("updateApiGatewayIntegration", [l EXCEPT !.j = j, !.k = k], "running")

\* The loops of updateApiGatewayIntegrations, lines 1868-1884: the first
\* event at or after (j, k) of an alias that has REST events, or the end of
\* the pass: no deployment when skipApiGateway is set.
RECURSIVE RestEventFrom(_, _, _)
RestEventFrom(l, j, k) ==
  IF j > Len(l.ALIASES)
  THEN IF config.skipApiGateway THEN AfterRestPass(l)
       ELSE Goto("createRestDeployment", [l EXCEPT !.j = 0, !.k = 0], "running")
  ELSE IF k > Len(getHttpEventsForFunction(l.ALIASES[j].name, l.FUNCTIONS))
  THEN RestEventFrom(l, j + 1, 1)
  ELSE Goto("updateApiGatewayIntegration", [l EXCEPT !.j = j, !.k = k], "running")

NextRestEvent(l) == RestEventFrom(l, l.j, l.k + 1)

SyncUnchanged == UNCHANGED <<IS_FORCE, service, lambda, lambda0, probe>>

\* updateApiGatewayIntegrations, lines 1866-1867, and getApiGatewayResources
GetApiGatewayResources ==
  /\ pc = "getApiGatewayResources"
  /\ \E r \in Results :
       /\ Spend(r)
       /\ calls' = calls \cup {Call("getResources", "", r)}
       /\ IF r = "err" THEN Raise(loc)
          ELSE RestEventFrom([loc EXCEPT !.LISTING = rest.resources], 1, 1)
  /\ UNCHANGED <<config, policy, rest, ws, permCalls, uriWrites, stageWrites>>
  /\ SyncUnchanged

\* updateApiGatewayIntegration, lines 1928-1950: resolve the resource, skip
\* the event when there is none, read the current integration for the log
UpdateApiGatewayIntegration ==
  /\ pc = "updateApiGatewayIntegration"
  /\ LET got == findResourceByPath(loc.LISTING, HTTP_EVENT.path)
     IN /\ config' = [config EXCEPT !.apiGatewayResourceCache = got.cache]
        /\ IF ~got.found
           THEN /\ NextRestEvent(loc)
                /\ UNCHANGED <<calls, faults>>
           ELSE \E r \in Results :
                  /\ Spend(r)
                  /\ calls' = calls \cup {Call("getIntegration", ALIAS.functionName, r)}
                  /\ Goto("updateIntegration", loc, "running")
  /\ UNCHANGED <<policy, rest, ws, permCalls, uriWrites, stageWrites>>
  /\ SyncUnchanged

\* updateApiGatewayIntegration, lines 1952-1962
UpdateIntegration ==
  /\ pc = "updateIntegration"
  /\ \E r \in Results :
       LET URI == IntegrationUri(ALIAS.functionName, getStageVarExprForFunction(ALIAS.name))
           key == [resourceId |-> RESOURCE_OF_EVENT.id, httpMethod |-> HTTP_EVENT.method]
       IN /\ Spend(r)
          /\ calls' = calls \cup {Call("updateIntegration", ALIAS.functionName, r)}
          /\ IF r = "err"
             THEN /\ Raise(loc)
                  /\ UNCHANGED <<rest, uriWrites>>
             ELSE /\ rest' = [rest EXCEPT !.integrations =
                                [x \in DOMAIN rest.integrations \cup {key} |->
                                   IF x = key THEN URI ELSE rest.integrations[x]]]
                  /\ uriWrites' = uriWrites \cup
                       {[api |-> "rest", functionName |-> ALIAS.functionName,
                         name |-> ALIAS.name, uri |-> URI, version |-> ALIAS.version]}
                  /\ Goto("removeStagePermission", loc, "running")
  /\ UNCHANGED <<config, policy, ws, permCalls, stageWrites>>
  /\ SyncUnchanged

\* A removal that raises whatever error is not 'not found'.
RemovePermissionRaising(target, sid, next) ==
  \E r \in Results :
    LET res == IF r = "err" THEN "err" ELSE IF HasStatement(target, sid) THEN "ok" ELSE "nf"
    IN /\ Spend(r)
       /\ calls' = calls \cup {Call("removePermission", ALIAS.functionName, res)}
       /\ permCalls' = permCalls \cup {PermCall("removePermission", target, sid)}
       /\ policy' = IF res = "ok" THEN WithoutStatement(target, sid) ELSE policy
       /\ IF res = "err" THEN Raise(loc) ELSE Goto(next, loc, "running")

\* One removePermission of the grant step, then on to pc value next: the
\* catch blocks (lines 2003-2007, 2010-2014, 2191-2195) log a warning and go
\* on, whatever the error.
RemovePermission(target, sid, next) ==
  \E r \in Results :
    LET res == IF r = "err" THEN "err" ELSE IF HasStatement(target, sid) THEN "ok" ELSE "nf"
    IN /\ Spend(r)
       /\ calls' = calls \cup {Call("removePermission", ALIAS.functionName, res)}
       /\ permCalls' = permCalls \cup {PermCall("removePermission", target, sid)}
       /\ policy' = IF res = "ok" THEN WithoutStatement(target, sid) ELSE policy
       /\ Goto(next, loc, "running")

\* The answer to addPermission: Lambda refuses a statement id the policy of
\* the target already holds.
AddResult(r, target, sid) ==
  IF r = "err" THEN "err" ELSE IF HasStatement(target, sid) THEN "conflict" ELSE "ok"

\* One addPermission of the grant step.
AddPermission(r, target, sid, source) ==
  LET res == AddResult(r, target, sid)
  IN /\ Spend(r)
     /\ calls' = calls \cup {Call("addPermission", ALIAS.functionName, res)}
     /\ permCalls' = permCalls \cup {PermCall("addPermission", target, sid)}
     /\ policy' = IF res = "ok" THEN policy \cup {Statement(target, sid, source)}
                  ELSE policy

PermUnchanged == UNCHANGED <<config, rest, ws, uriWrites, stageWrites>>

\* addLambdaPermission, lines 2001-2007
RemoveStagePermission ==
  /\ pc = "removeStagePermission"
  /\ RemovePermission(QUALIFIED_FUNCTION_NAME(ALIAS),
                      STAGE_STATEMENT_ID(ALIAS, RESOURCE_OF_EVENT.id, HTTP_EVENT.method),
                      "removeTestPermission")
  /\ PermUnchanged
  /\ SyncUnchanged

\* addLambdaPermission, lines 2008-2014
RemoveTestPermission ==
  /\ pc = "removeTestPermission"
  /\ RemovePermission(QUALIFIED_FUNCTION_NAME(ALIAS),
                      TEST_STATEMENT_ID(ALIAS, RESOURCE_OF_EVENT.id, HTTP_EVENT.method),
                      "addStagePermission")
  /\ PermUnchanged
  /\ SyncUnchanged

\* addLambdaPermission, lines 2016-2022
AddStagePermission ==
  /\ pc = "addStagePermission"
  /\ \E r \in Results :
       LET target == QUALIFIED_FUNCTION_NAME(ALIAS)
           sid == STAGE_STATEMENT_ID(ALIAS, RESOURCE_OF_EVENT.id, HTTP_EVENT.method)
       IN /\ AddPermission(r, target, sid, SOURCE_ARN(HTTP_EVENT.method, HTTP_EVENT.path))
          /\ IF AddResult(r, target, sid) = "ok"
             THEN Goto("addTestPermission", loc, "running")
             ELSE Raise(loc)
  /\ PermUnchanged
  /\ SyncUnchanged

\* addLambdaPermission, lines 2024-2030
AddTestPermission ==
  /\ pc = "addTestPermission"
  /\ \E r \in Results :
       LET target == QUALIFIED_FUNCTION_NAME(ALIAS)
           sid == TEST_STATEMENT_ID(ALIAS, RESOURCE_OF_EVENT.id, HTTP_EVENT.method)
       IN /\ AddPermission(r, target, sid, TEST_SOURCE_ARN(HTTP_EVENT.method, HTTP_EVENT.path))
          /\ IF AddResult(r, target, sid) = "ok" THEN NextRestEvent(loc) ELSE Raise(loc)
  /\ PermUnchanged
  /\ SyncUnchanged

\* deployApiGateway, lines 2045-2054: the deployment, which binds the stage
\* named in the request and creates it when it is missing
CreateRestDeployment ==
  /\ pc = "createRestDeployment"
  /\ \E r \in Results :
       /\ Spend(r)
       /\ calls' = calls \cup {Call("createRestDeployment", "", r)}
       /\ IF r = "err"
          THEN /\ Raise(loc)
               /\ rest' = rest
          ELSE /\ rest' = [rest EXCEPT !.deployments = rest.deployments + 1,
                                       !.stage.exists = TRUE,
                                       !.stage.deploymentId = rest.deployments + 1]
               /\ IF ~config.skipSetGlobalStageVar
                  THEN Goto("updateRestStage",
                            [loc EXCEPT !.DEPLOYMENT = rest.deployments + 1], "running")
                  ELSE AfterRestPass(loc)
  /\ UNCHANGED <<config, policy, ws, permCalls, uriWrites, stageWrites>>
  /\ SyncUnchanged

\* deployApiGateway, lines 2055-2062
UpdateRestStage ==
  /\ pc = "updateRestStage"
  /\ \E r \in Results :
       /\ Spend(r)
       /\ calls' = calls \cup {Call("updateRestStage", "", r)}
       /\ stageWrites' = stageWrites \cup
            {[api |-> "rest", op |-> "updateStage", key |-> GLOBAL_KEY,
              value |-> config.alias]}
       /\ IF r = "err"
          THEN /\ Raise(loc)
               /\ rest' = rest
          ELSE /\ rest' = [rest EXCEPT !.stage.alias = config.alias]
               /\ AfterRestPass(loc)
  /\ UNCHANGED <<config, policy, ws, permCalls, uriWrites>>
  /\ SyncUnchanged

\* -------------------------------------------------------- WebSocket gateway

\* ROUTE.Target?.split('/').pop(): the last segment of the route's target.
TargetIntegrationId(target) == IF target = <<>> THEN <<>> ELSE <<target[Len(target)]>>

NO_ROUTE == [RouteId |-> <<>>, RouteKey |-> <<>>, Target |-> <<>>]

\* routes.find(route => route.RouteKey === websocketEvent.route), line 2134
findRoute(routes, routeKey) ==
  LET hits == {route \in routes : route.RouteKey = routeKey}
  IN IF hits = {} THEN [found |-> FALSE, ROUTE |-> NO_ROUTE]
     ELSE [found |-> TRUE, ROUTE |-> CHOOSE route \in hits : TRUE]

\* INTEGRATIONS.Items.find(...), lines 2143-2145
findRouteIntegration(integrations, ROUTE) ==
  {x \in integrations : /\ x.ApiId = config.websocketApiId
                        /\ <<x.IntegrationId>> = TargetIntegrationId(ROUTE.Target)}

ROUTE_OF_EVENT == findRoute(loc.LISTING, WEBSOCKET_EVENT.route).ROUTE

\* The loops of updateWebSocketApiIntegrations, lines 2088-2104
RECURSIVE WsEventFrom(_, _, _)
WsEventFrom(l, j, k) ==
  IF j > Len(l.ALIASES)
  THEN IF config.skipWebSocketGateway
       THEN Return([l EXCEPT !.ALIASES = <<>>, !.j = 0, !.k = 0, !.LISTING = {}])
       ELSE Goto("createWsDeployment", [l EXCEPT !.j = 0, !.k = 0], "running")
  ELSE IF k > Len(getWebSocketEventsForFunction(l.ALIASES[j].name, l.FUNCTIONS))
  THEN WsEventFrom(l, j + 1, 1)
  ELSE Goto("updateWebSocketApiIntegration", [l EXCEPT !.j = j, !.k = k], "running")

NextWsEvent(l) == WsEventFrom(l, l.j, l.k + 1)

\* updateWebSocketApiIntegrations, lines 2086-2087, and getWebSocketApiRoutes
GetWebSocketApiRoutes ==
  /\ pc = "getWebSocketApiRoutes"
  /\ \E r \in Results :
       /\ Spend(r)
       /\ calls' = calls \cup {Call("getRoutes", "", r)}
       /\ IF r = "err" THEN Raise(loc)
          ELSE WsEventFrom([loc EXCEPT !.LISTING = ws.routes], 1, 1)
  /\ UNCHANGED <<config, policy, rest, ws, permCalls, uriWrites, stageWrites>>
  /\ SyncUnchanged

\* updateWebSocketApiIntegration, lines 2133-2149: resolve the route, list
\* the integrations, resolve the route's integration
UpdateWebSocketApiIntegration ==
  /\ pc = "updateWebSocketApiIntegration"
  /\ LET got == findRoute(loc.LISTING, WEBSOCKET_EVENT.route)
     IN IF ~got.found
        THEN /\ NextWsEvent(loc)
             /\ UNCHANGED <<calls, faults>>
        ELSE \E r \in Results :
               /\ Spend(r)
               /\ calls' = calls \cup {Call("getIntegrations", ALIAS.functionName, r)}
               /\ IF r = "err" THEN Raise(loc)
                  ELSE IF findRouteIntegration(ws.integrations, got.ROUTE) = {}
                  THEN NextWsEvent(loc)
                  ELSE Goto("updateWsIntegration", loc, "running")
  /\ UNCHANGED <<config, policy, rest, ws, permCalls, uriWrites, stageWrites>>
  /\ SyncUnchanged

\* updateWebSocketApiIntegration, lines 2151-2160
UpdateWsIntegration ==
  /\ pc = "updateWsIntegration"
  /\ \E r \in Results :
       LET URI == IntegrationUri(ALIAS.functionName, getStageVarExprForFunction(ALIAS.name))
           ROUTE_INTEGRATION ==
             CHOOSE x \in findRouteIntegration(ws.integrations, ROUTE_OF_EVENT) : TRUE
       IN /\ Spend(r)
          /\ calls' = calls \cup {Call("updateWsIntegration", ALIAS.functionName, r)}
          /\ IF r = "err"
             THEN /\ Raise(loc)
                  /\ UNCHANGED <<ws, uriWrites>>
             ELSE /\ ws' = [ws EXCEPT !.integrations =
                              (ws.integrations \ {ROUTE_INTEGRATION}) \cup
                              {[ROUTE_INTEGRATION EXCEPT !.IntegrationUri = URI]}]
                  /\ uriWrites' = uriWrites \cup
                       {[api |-> "ws", functionName |-> ALIAS.functionName,
                         name |-> ALIAS.name, uri |-> URI, version |-> ALIAS.version]}
                  /\ Goto("removeWsPermission", loc, "running")
  /\ UNCHANGED <<config, policy, rest, permCalls, stageWrites>>
  /\ SyncUnchanged

\* addWebSocketLambdaPermission, lines 2189-2195
RemoveWsPermission ==
  /\ pc = "removeWsPermission"
  /\ RemovePermission(QUALIFIED_FUNCTION_NAME(ALIAS),
                      WS_STATEMENT_ID(ALIAS, ROUTE_OF_EVENT.RouteId), "addWsPermission")
  /\ PermUnchanged
  /\ SyncUnchanged

\* addWebSocketLambdaPermission, lines 2197-2203
AddWsPermission ==
  /\ pc = "addWsPermission"
  /\ \E r \in Results :
       LET target == QUALIFIED_FUNCTION_NAME(ALIAS)
           sid == WS_STATEMENT_ID(ALIAS, ROUTE_OF_EVENT.RouteId)
       IN /\ AddPermission(r, target, sid, WS_SOURCE_ARN(WEBSOCKET_EVENT.route))
          /\ IF AddResult(r, target, sid) = "ok" THEN NextWsEvent(loc) ELSE Raise(loc)
  /\ PermUnchanged
  /\ SyncUnchanged

\* deployWebSocketApi, lines 2222-2226
CreateWsDeployment ==
  /\ pc = "createWsDeployment"
  /\ \E r \in Results :
       /\ Spend(r)
       /\ calls' = calls \cup {Call("createWsDeployment", "", r)}
       /\ IF r = "err"
          THEN /\ Raise(loc)
               /\ ws' = ws
          ELSE /\ ws' = [ws EXCEPT !.deployments = ws.deployments + 1]
               /\ Goto("getWsStage", [loc EXCEPT !.DEPLOYMENT = ws.deployments + 1],
                       "running")
  /\ UNCHANGED <<config, policy, rest, permCalls, uriWrites, stageWrites>>
  /\ SyncUnchanged

\* deployWebSocketApi, lines 2228-2229 and 2240-2253: does the stage exist
GetWsStage ==
  /\ pc = "getWsStage"
  /\ \E r \in Results :
       LET res == IF r = "err" THEN "err" ELSE IF ws.stage.exists THEN "ok" ELSE "nf"
       IN /\ Spend(r)
          /\ calls' = calls \cup {Call("getWsStage", "", res)}
          /\ CASE res = "err" -> Raise(loc)
               [] res = "nf" -> Goto("createWsStage", loc, "running")
               [] OTHER -> Goto("updateWsStage", loc, "running")
  /\ UNCHANGED <<config, policy, rest, ws, permCalls, uriWrites, stageWrites>>
  /\ SyncUnchanged

\* Stage requests that carry no StageVariables at all.
WsStageVariablesKept(current) == current

\* The StageVariables the WebSocket stage calls carry (lines 2235-2237 and
\* 2246-2248): none when skipSetGlobalStageVar is set.
WsStageVariables(current) ==
  IF config.skipSetGlobalStageVar THEN current ELSE config.alias

\* Stage requests that carry the 'alias' variable in every mode.
StageVariablesInEveryMode(op) ==
  {[api |-> "ws", op |-> op, key |-> GLOBAL_KEY, value |-> config.alias]}

\* The StageVariables parameter of a WebSocket stage request, as the set of
\* variables it carries.
StageVariables(op) ==
  IF config.skipSetGlobalStageVar THEN {}
  ELSE {[api |-> "ws", op |-> op, key |-> GLOBAL_KEY, value |-> config.alias]}

\* deployWebSocketApi, lines 2230-2239
UpdateWsStage ==
  /\ pc = "updateWsStage"
  /\ \E r \in Results :
       /\ Spend(r)
       /\ calls' = calls \cup {Call("updateWsStage", "", r)}
       /\ stageWrites' = stageWrites \cup StageVariables("updateStage")
       /\ IF r = "err"
          THEN /\ Raise(loc)
               /\ ws' = ws
          ELSE /\ ws' = [ws EXCEPT !.stage.deploymentId = loc.DEPLOYMENT,
                                   !.stage.alias = WsStageVariables(ws.stage.alias)]
               /\ Return([loc EXCEPT !.ALIASES = <<>>, !.LISTING = {}, !.DEPLOYMENT = NULL])
  /\ UNCHANGED <<config, policy, rest, permCalls, uriWrites>>
  /\ SyncUnchanged

\* deployWebSocketApi, lines 2241-2249
CreateWsStage ==
  /\ pc = "createWsStage"
  /\ \E r \in Results :
       /\ Spend(r)
       /\ calls' = calls \cup {Call("createWsStage", "", r)}
       /\ stageWrites' = stageWrites \cup StageVariables("createStage")
       /\ IF r = "err"
          THEN /\ Raise(loc)
               /\ ws' = ws
          ELSE /\ ws' = [ws EXCEPT !.stage.exists = TRUE,
                                   !.stage.deploymentId = loc.DEPLOYMENT,
                                   !.stage.alias = WsStageVariables(<<>>)]
               /\ Return([loc EXCEPT !.ALIASES = <<>>, !.LISTING = {}, !.DEPLOYMENT = NULL])
  /\ UNCHANGED <<config, policy, rest, permCalls, uriWrites>>
  /\ SyncUnchanged

\* ------------------------------------------------------------ initial states

ALIAS_DEV == <<"d","e","v">>
REST_API == <<"r","4","p","i">>
WS_API == <<"w","5","p","i">>

RES_HI == [id |-> <<"a","1">>, path |-> <<"/","h","i">>]
RES_IT == [id |-> <<"b","2">>, path |-> PATH_IT]

ROUTE_1 == [RouteId |-> <<"c","3">>, RouteKey |-> ROUTE_CONNECT,
            Target |-> <<"integrations", "/", "i1">>]
ROUTE_2 == [RouteId |-> <<"d","4">>, RouteKey |-> ROUTE_DEFAULT,
            Target |-> <<"integrations", "/", "i2">>]

\* this.config after the constructor and initializePlugin (lines 1143-1160
\* and 1199-1227)
PluginConfig(alias, restApiId, websocketApiId, perFunctionStageVars, template, sanitize, skipApiGateway, skipWebSocketGateway, skipSetGlobalStageVar, excluded) ==
  [alias |-> alias, excludedFunctions |-> excluded, apiGatewayResourceCache |-> {},
   accountId |-> <<>>, restApiId |-> restApiId, websocketApiId |-> websocketApiId,
   perFunctionStageVars |-> perFunctionStageVars, stageVarKeyTemplate |-> template,
   stageVarSanitize |-> sanitize,
   skipSetGlobalStageVar |-> perFunctionStageVars \/ skipSetGlobalStageVar,
   skipApiGateway |-> skipApiGateway, skipWebSocketGateway |-> skipWebSocketGateway]

\* The REST gateway the stack deployed: the resources, one integration per
\* resource and method, the stage on its first deployment; its stage may
\* not exist yet.
RestGateway(resources, stageExists) ==
  [resources |-> resources,
   integrations |->
     [x \in {[resourceId |-> RES_HI.id, httpMethod |-> <<"G","E","T">>],
             [resourceId |-> RES_IT.id, httpMethod |-> <<"P","O","S","T">>]} |->
        IF x.resourceId = RES_HI.id THEN OriginalUri("FnA") ELSE OriginalUri("FnB")],
   deployments |-> 1,
   stage |-> [exists |-> stageExists, deploymentId |-> IF stageExists THEN 1 ELSE NULL,
              alias |-> <<>>]]

\* The WebSocket gateway the stack deployed; its stage may not exist yet.
WsGateway(stageExists) ==
  [routes |-> {ROUTE_1, ROUTE_2},
   integrations |->
     {[ApiId |-> WS_API, IntegrationId |-> "i1", IntegrationUri |-> OriginalUri("FnA")],
      [ApiId |-> WS_API, IntegrationId |-> "i2", IntegrationUri |-> OriginalUri("FnB")]},
   deployments |-> 1,
   stage |-> [exists |-> stageExists, deploymentId |-> IF stageExists THEN 1 ELSE NULL,
              alias |-> <<>>]]

\* The statements an earlier run granted for the second function, when its
\* alias pointed at the version it points at now.
PriorStatements ==
  LET prior == [functionName |-> "FnB", name |-> <<"f","-","b">>, aliasName |-> config.alias,
                version |-> lambda["FnB"].alias, events |-> <<>>]
      POST == <<"P","O","S","T">>
      target == QUALIFIED_FUNCTION_NAME(prior)
  IN { Statement(target, STAGE_STATEMENT_ID(prior, RES_IT.id, POST),
                 ExecuteApiArn(ACCOUNT, config.restApiId, <<"/*/">>, POST \o PATH_IT)),
       Statement(target, TEST_STATEMENT_ID(prior, RES_IT.id, POST),
                 ExecuteApiArn(ACCOUNT, config.restApiId, <<"/test-invoke-stage/">>,
                               POST \o PATH_IT)),
       Statement(target, WS_STATEMENT_ID(prior, ROUTE_2.RouteId),
                 ExecuteApiArn(ACCOUNT, config.websocketApiId, <<"/*/">>, ROUTE_DEFAULT)) }

IdleProbe == [op |-> "none", names |-> <<>>, keys |-> <<>>, ids |-> <<>>]

InitRun ==
  /\ service = ServiceFunctions
  /\ pc = "start"
  /\ loc = Locals
  /\ outcome = "running"
  /\ calls = {}
  /\ permCalls = {}
  /\ uriWrites = {}
  /\ faults = 0
  /\ lambda0 = lambda
  /\ stageWrites = {}
  /\ probe = IdleProbe

\* Runs of a service with no gateway identifiers configured: every remote
\* state of the first function, with and without --force.
InitAliases ==
  /\ \E excluded \in {{}, {<<"f","-","b">>}} :
       /\ config = PluginConfig(ALIAS_DEV, <<>>, <<>>, FALSE, DEFAULT_TEMPLATE, TRUE,
                                FALSE, FALSE, FALSE, excluded)
       /\ \E first \in LambdaStates :
            \E second \in IF excluded = {} THEN LambdaStatesSecond ELSE {MissingFunction} :
              lambda = [fn \in PhysicalNames |-> IF fn = "FnA" THEN first ELSE second]
  /\ IS_FORCE \in BOOLEAN
  /\ policy = {}
  /\ rest = RestGateway({RES_HI, RES_IT}, TRUE)
  /\ ws = WsGateway(TRUE)
  /\ InitRun

\* Runs of a service with both gateways configured: the first function
\* changed since its version 1, never published or converged, the second
\* changed or converged; the gateways as the stack deployed them, or with the grants of
\* an earlier run, or without the first function's resource, or without
\* their stages, or without the first function's route, or without the
\* integration behind that route. A run is plain (any skip-deployment flags), forced
\* (--force), excluding (the second function is excluded) or unset
\* (custom.alias.skipSetGlobalStageVar).
SyncModes == {"plain", "forced", "excluding", "unset"}

InitSync ==
  /\ \E mode \in SyncModes :
       /\ \E perFunctionStageVars \in BOOLEAN,
             skipApiGateway \in IF mode = "plain" THEN BOOLEAN ELSE {FALSE},
             skipWebSocketGateway \in IF mode = "plain" THEN BOOLEAN ELSE {FALSE} :
            config = PluginConfig(ALIAS_DEV, REST_API, WS_API, perFunctionStageVars,
                                  DEFAULT_TEMPLATE, TRUE, skipApiGateway, skipWebSocketGateway,
                                  mode = "unset",
                                  IF mode = "excluding" THEN {<<"f","-","b">>} ELSE {})
       /\ IS_FORCE = (mode = "forced")
       /\ \E first \in {ExistingFunction(Cfg("sha2", ENV_A), <<Cfg("sha1", ENV_A)>>, 1),
                        ExistingFunction(Cfg("sha1", ENV_A), <<>>, NULL),
                        ExistingFunction(Cfg("sha1", ENV_A), <<Cfg("sha1", ENV_A)>>, 1)} :
            \E second \in {ExistingFunction(Cfg("sha1", ENV_B), <<Cfg("sha1", ENV_B)>>, 1),
                           ExistingFunction(Cfg("sha1", ENV_A), <<Cfg("sha1", ENV_A)>>, 1)} :
              lambda = [fn \in PhysicalNames |-> IF fn = "FnA" THEN first ELSE second]
       /\ \E gateways \in IF mode = "plain"
                          THEN {"deployed", "granted", "partial", "stageless",
                                "unrouted", "detached"}
                          ELSE {"deployed", "stageless"} :
            /\ policy = IF gateways = "granted" THEN PriorStatements ELSE {}
            /\ rest = RestGateway(IF gateways = "partial" THEN {RES_IT} ELSE {RES_HI, RES_IT},
                               gateways # "stageless")
            /\ ws = [WsGateway(gateways # "stageless") EXCEPT
                      !.routes = IF gateways = "unrouted" THEN {ROUTE_2} ELSE @,
                      !.integrations = IF gateways = "detached"
                                       THEN {x \in @ : x.IntegrationId # "i1"} ELSE @]
  /\ InitRun

Init == InitAliases \/ InitSync

Next ==
  \/ StartWorkflow
  \/ GetExistingAlias
  \/ GetFunction
  \/ ListVersionsByFunction
  \/ HaveFunctionChanges
  \/ CompareVersion
  \/ CompareAlias
  \/ UpdateFunctionConfiguration
  \/ WaitForFunctionUpdateToComplete
  \/ PublishVersion
  \/ CreateOrUpdateAlias
  \/ UpdateAlias
  \/ CreateAlias
  \/ GetApiGatewayResources
  \/ UpdateApiGatewayIntegration
  \/ UpdateIntegration
  \/ RemoveStagePermission
  \/ RemoveTestPermission
  \/ AddStagePermission
  \/ AddTestPermission
  \/ CreateRestDeployment
  \/ UpdateRestStage
  \/ GetWebSocketApiRoutes
  \/ UpdateWebSocketApiIntegration
  \/ UpdateWsIntegration
  \/ RemoveWsPermission
  \/ AddWsPermission
  \/ CreateWsDeployment
  \/ GetWsStage
  \/ UpdateWsStage
  \/ CreateWsStage

Spec == Init /\ [][Next]_vars

\* ------------------------------------------- the pure helpers, on their own

KeyTemplates ==
  { DEFAULT_TEMPLATE,
    FN_PLACEHOLDER,
    FN_PLACEHOLDER \o <<"_">> \o ALIAS_PLACEHOLDER,
    FN_PLACEHOLDER \o <<".","v">>,
    ALIAS_PLACEHOLDER \o <<"K","e","y">>,
    GLOBAL_KEY }

LogicalNames == { <<"f","a">>, <<"f","-","b">>, <<"f","_","b">>, GLOBAL_KEY }
AliasNames == { ALIAS_DEV, <<"v",".","1">> }
GatewayIds == { REST_API, <<"r",":","1">> }
ResourceIds == { RES_HI.id, <<"a","/","1">> }
Methods == { <<"G","E","T">>, <<"*">> }
RouteIds == { ROUTE_1.RouteId, <<"$","c">> }

\* Any configuration of the alias name, the gateway identifiers, the key
\* template and the sanitize flag, in per-function mode.
InitKey ==
  /\ \E alias \in AliasNames, gatewayId \in GatewayIds, template \in KeyTemplates,
        sanitize \in BOOLEAN :
       config = PluginConfig(alias, gatewayId, gatewayId, TRUE, template, sanitize,
                             FALSE, FALSE, FALSE, {})
  /\ IS_FORCE = FALSE
  /\ service = ServiceFunctions
  /\ lambda = [fn \in PhysicalNames |-> MissingFunction]
  /\ policy = {}
  /\ rest = RestGateway({RES_HI, RES_IT}, TRUE)
  /\ ws = WsGateway(TRUE)
  /\ pc = "probe"
  /\ loc = Locals
  /\ outcome = "running"
  /\ calls = {}
  /\ permCalls = {}
  /\ uriWrites = {}
  /\ faults = 0
  /\ lambda0 = lambda
  /\ stageWrites = {}
  /\ probe = IdleProbe

ProbeUnchanged == UNCHANGED <<config, IS_FORCE, service, lambda, policy, rest, ws, pc, loc,
                              outcome, calls, permCalls, uriWrites, faults, lambda0,
                              stageWrites>>

\* buildStageVarKey and getStageVarExprForFunction of two logical names
ProbeStageVarKeys ==
  /\ pc = "probe"
  /\ \E a \in LogicalNames, b \in LogicalNames :
       probe' = [op |-> "buildStageVarKey", names |-> <<a, b>>,
                 keys |-> <<buildStageVarKey(a), buildStageVarKey(b)>>,
                 ids |-> <<getStageVarExprForFunction(a), getStageVarExprForFunction(b)>>]
  /\ ProbeUnchanged

\* The three statement identifiers of one resource, method and route
ProbeStatementIds ==
  /\ pc = "probe"
  /\ \E resourceId \in ResourceIds, method \in Methods, routeId \in RouteIds :
       LET alias == [functionName |-> "FnA", name |-> <<"f","a">>, aliasName |-> config.alias,
                     version |-> LATEST, events |-> <<>>]
       IN probe' = [op |-> "statementIds", names |-> <<resourceId, method, routeId>>,
                    keys |-> <<>>,
                    ids |-> <<STAGE_STATEMENT_ID(alias, resourceId, method),
                              TEST_STATEMENT_ID(alias, resourceId, method),
                              WS_STATEMENT_ID(alias, routeId)>>]
  /\ ProbeUnchanged

NextKey == ProbeStageVarKeys \/ ProbeStatementIds

SpecKey == InitKey /\ [][NextKey]_vars

\* ------------------------------------------ pre-deployment validation

\* VALID_METHODS, VALID_SETTINGS (lines 1353-1365) and VALID_ROUTES (line 1386)
VALID_METHODS ==
  { <<"G","E","T">>, <<"P","O","S","T">>, <<"P","U","T">>, <<"P","A","T","C","H">>,
    <<"D","E","L","E","T","E">>, <<"O","P","T","I","O","N","S">>, <<"A","N","Y">> }

VALID_SETTINGS ==
  { "cacheDataEncrypted", "cacheTtlInSeconds", "cachingEnabled", "dataTraceEnabled",
    "loggingLevel", "metricsEnabled", "requireAuthorizationForCacheControl",
    "throttlingBurstLimit", "throttlingRateLimit", "unauthorizedCacheControlHeaderStrategy" }

VALID_ROUTES ==
  { <<"$","c","o","n","n","e","c","t">>,
    <<"$","d","i","s","c","o","n","n","e","c","t">>,
    <<"$","d","e","f","a","u","l","t">> }

\* One line of INVALID_CONFIG: the function, the rule broken, the offender.
Invalid(funcName, kind, what) == [funcName |-> funcName, kind |-> kind, what |-> what]

RECURSIVE ConcatAll(_)
ConcatAll(seqs) == IF seqs = <<>> THEN <<>> ELSE Head(seqs) \o ConcatAll(Tail(seqs))

\* A method check that compares the method as written.
validateEventMethodAsWritten(funcName, event) ==
  IF event.method \notin VALID_METHODS
  THEN << Invalid(funcName, "method", event.method) >> ELSE <<>>

\* validateEventMethod, lines 1408-1415
validateEventMethod(funcName, event) ==
  LET METHOD == ToUpperCase(event.method)
  IN IF METHOD \notin VALID_METHODS
     THEN << Invalid(funcName, "method", METHOD) >> ELSE <<>>

\* validateEventMethodSettings, lines 1417-1425: one line per key outside
\* VALID_SETTINGS, in the order of Object.keys
validateEventMethodSettings(funcName, event) ==
  LET invalid(setting) == setting \notin VALID_SETTINGS
      settings == SelectSeq(event.methodSettings, invalid)
  IN [n \in 1..Len(settings) |-> Invalid(funcName, "setting", <<settings[n]>>)]

\* validateApiGatewayMethodSettings, lines 1367-1378: an event that is not an
\* http event with a method is passed over, its methodSettings with it.
validateApiGatewayMethodSettings(functions) ==
  LET ofEvent(funcName, event) ==
        IF event.type # "http" THEN <<>>
        ELSE IF event.method = <<>> THEN <<>>
        ELSE validateEventMethod(funcName, event)
             \o validateEventMethodSettings(funcName, event)
      ofFunction(funcDef) ==
        ConcatAll([e \in 1..Len(funcDef.events) |-> ofEvent(funcDef.name, funcDef.events[e])])
  IN ConcatAll([f \in 1..Len(functions) |-> ofFunction(functions[f])])

\* validateWebSocketSettings, lines 1388-1403: event.websocket is a string,
\* the route itself (shorthand), or an object whose route may be missing.
validateWebSocketSettings(functions) ==
  LET ofEvent(funcName, event) ==
        IF event.type # "websocket" THEN <<>>
        ELSE IF event.shorthand /\ event.route = <<>> THEN <<>>
        ELSE IF event.route = <<>> /\ ~event.shorthand
        THEN << Invalid(funcName, "noRoute", <<>>) >>
        ELSE LET ROUTE == event.route
             IN IF ROUTE[1] = "$" /\ ROUTE \notin VALID_ROUTES
                THEN << Invalid(funcName, "route", ROUTE) >> ELSE <<>>
      ofFunction(funcDef) ==
        ConcatAll([e \in 1..Len(funcDef.events) |-> ofEvent(funcDef.name, funcDef.events[e])])
  IN ConcatAll([f \in 1..Len(functions) |-> ofFunction(functions[f])])

\* validateConfiguration, lines 1300-1346: whether it throws, and the lines
\* the error lists.
validateConfiguration ==
  IF config.alias = <<>>
  THEN [raised |-> TRUE, INVALID_CONFIG |-> << Invalid(<<>>, "alias", <<>>) >>]
  ELSE LET INVALID_METHOD_SETTINGS ==
             IF config.restApiId # <<>> THEN validateApiGatewayMethodSettings(service)
             ELSE <<>>
           INVALID_WEBSOCKET_SETTINGS ==
             IF config.websocketApiId # <<>> THEN validateWebSocketSettings(service)
             ELSE <<>>
           INVALID_CONFIG == INVALID_METHOD_SETTINGS \o INVALID_WEBSOCKET_SETTINGS
       IN [raised |-> Len(INVALID_CONFIG) > 0, INVALID_CONFIG |-> INVALID_CONFIG]

\* The http and websocket events a function may declare.
ValidationHttpEvents ==
  { [type |-> "http", path |-> PATH_HI, method |-> method, methodSettings |-> settings] :
      method \in { <<>>, <<"g","e","t">>, <<"P","A","T","C","H">>, <<"h","e","a","d">> },
      settings \in { <<>>, <<"cachingEnabled">>, <<"cachingEnabled", "cacheTtl">>,
                     <<"burstLimit", "cacheTtl">> } }

ValidationWebSocketEvents ==
  { [type |-> "websocket", shorthand |-> TRUE, route |-> route] :
      route \in { <<"$","c","o","n","n","e","c","t">>, <<"$","f","o","o">>,
                  <<"c","h","a","t">> } }
  \cup
  { [type |-> "websocket", shorthand |-> FALSE, route |-> route] :
      route \in { <<>>, <<"$","d","e","f","a","u","l","t">>, <<"$","b","a","r">>,
                  <<"c","h","a","t">> } }

\* Any service of two functions, with either gateway identifier configured
\* or not.
InitValidate ==
  /\ \E restApiId \in {<<>>, REST_API}, websocketApiId \in {<<>>, WS_API} :
       config = PluginConfig(ALIAS_DEV, restApiId, websocketApiId, FALSE, DEFAULT_TEMPLATE,
                             TRUE, FALSE, FALSE, FALSE, {})
  /\ \E http \in ValidationHttpEvents, websocket \in ValidationWebSocketEvents,
        second \in { <<>>, << [type |-> "http", path |-> PATH_IT,
                               method |-> <<"t","r","a","c","e">>,
                               methodSettings |-> <<>>] >> } :
       service = << [name |-> <<"f","a">>, functionName |-> "FnA", environment |-> ENV_A,
                     events |-> <<http, websocket>>],
                    [name |-> <<"f","-","b">>, functionName |-> "FnB", environment |-> ENV_A,
                     events |-> second] >>
  /\ IS_FORCE = FALSE
  /\ lambda = [fn \in PhysicalNames |-> MissingFunction]
  /\ policy = {}
  /\ rest = RestGateway({RES_HI, RES_IT}, TRUE)
  /\ ws = WsGateway(TRUE)
  /\ pc = "validate"
  /\ loc = Locals
  /\ outcome = "running"
  /\ calls = {}
  /\ permCalls = {}
  /\ uriWrites = {}
  /\ faults = 0
  /\ lambda0 = lambda
  /\ stageWrites = {}
  /\ probe = IdleProbe

\* The 'before:deploy:deploy' hook (line 1164)
ValidateConfiguration ==
  /\ pc = "validate"
  /\ LET result == validateConfiguration
     IN /\ probe' = [op |-> "validateConfiguration", names |-> <<>>, keys |-> <<>>,
                     ids |-> result.INVALID_CONFIG]
        /\ outcome' = IF result.raised THEN "raised" ELSE "returned"
  /\ pc' = "done"
  /\ UNCHANGED <<config, IS_FORCE, service, lambda, policy, rest, ws, loc, calls, permCalls,
                 uriWrites, faults, lambda0, stageWrites>>

NextValidate == ValidateConfiguration

SpecValidate == InitValidate /\ [][NextValidate]_vars

\* ------------------------------------------- the Change Detector, on its own

\* Configurations that differ from Cfg("sha1", ENV_A) in one compared field,
\* in the environment (a value, one key more, none), or in the layers (one,
\* two, the same two in the other order, one of them twice).
DetectConfigs ==
  LET base == Cfg("sha1", ENV_A)
  IN { base,
       [base EXCEPT !.CodeSha256 = "sha2"],
       [base EXCEPT !.Handler = "main.handler"],
       [base EXCEPT !.Runtime = "python"],
       [base EXCEPT !.MemorySize = 256],
       [base EXCEPT !.Timeout = 30],
       [base EXCEPT !.Role = "role2"],
       [base EXCEPT !.Environment = ENV_B],
       [base EXCEPT !.Environment = [key \in {"A", "B"} |-> "1"]],
       [base EXCEPT !.Environment = [key \in {} |-> "1"]],
       [base EXCEPT !.Layers = <<"arn:l1">>],
       [base EXCEPT !.Layers = <<"arn:l1", "arn:l2">>],
       [base EXCEPT !.Layers = <<"arn:l2", "arn:l1">>],
       [base EXCEPT !.Layers = <<"arn:l1", "arn:l1", "arn:l2">>],
       [base EXCEPT !.Layers = <<"arn:l2", "arn:l2", "arn:l1">>] }

\* The call haveFunctionChanges(FUNCTION, COMPARE_VERSION) of line 1592, for
\* any latest configuration, any configuration of version 1, any desired
\* environment, the alias on version 1 or absent.
InitDetect ==
  /\ config = PluginConfig(ALIAS_DEV, <<>>, <<>>, FALSE, DEFAULT_TEMPLATE, TRUE,
                           FALSE, FALSE, FALSE, {})
  /\ IS_FORCE = FALSE
  /\ \E latest \in DetectConfigs, version \in DetectConfigs, alias \in {NULL, 1},
        desired \in {c.Environment : c \in DetectConfigs} :
       /\ service = << [name |-> <<"f","a">>, functionName |-> "FnA",
                        environment |-> desired, events |-> <<>>] >>
       /\ lambda = [fn \in PhysicalNames |->
                      IF fn = "FnA" THEN ExistingFunction(latest, <<version>>, alias)
                      ELSE MissingFunction]
       /\ loc = [Locals EXCEPT !.FUNCTIONS = service, !.i = 1, !.EXISTING_ALIAS = alias,
                               !.LATEST_VERSION = 1, !.COMPARE_VERSION = 1]
  /\ policy = {}
  /\ rest = RestGateway({RES_HI, RES_IT}, TRUE)
  /\ ws = WsGateway(TRUE)
  /\ pc = "haveFunctionChanges"
  /\ outcome = "running"
  /\ calls = {}
  /\ permCalls = {}
  /\ uriWrites = {}
  /\ faults = 0
  /\ lambda0 = lambda
  /\ stageWrites = {}
  /\ probe = IdleProbe

NextDetect == HaveFunctionChanges \/ CompareVersion \/ CompareAlias

SpecDetect == InitDetect /\ [][NextDetect]_vars

\* ------------------------------------- the Resource Resolver, on its own

\* Lookups one run may make after its listing was fetched.
MaxLookups == 4

\* The paths looked up: with and without the leading slash, and one that no
\* resource has.
LookupPaths ==
  {<<"h","i">>, <<"/","h","i">>, <<"i","t">>, PATH_IT, <<"z","z">>, <<"/","z","z">>}

\* A run that has fetched a listing (getApiGatewayResources, lines
\* 1904-1915) and has looked nothing up yet: the cache of the constructor
\* is empty.
InitResolve ==
  /\ config = PluginConfig(ALIAS_DEV, REST_API, <<>>, FALSE, DEFAULT_TEMPLATE, TRUE,
                           FALSE, FALSE, FALSE, {})
  /\ IS_FORCE = FALSE
  /\ service = ServiceFunctions
  /\ lambda = [fn \in PhysicalNames |-> MissingFunction]
  /\ policy = {}
  /\ \E resources \in SUBSET {RES_HI, RES_IT} :
       /\ rest = RestGateway(resources, TRUE)
       /\ loc = [Locals EXCEPT !.LISTING = resources]
  /\ ws = WsGateway(TRUE)
  /\ pc = "findResourceByPath"
  /\ outcome = "running"
  /\ calls = {}
  /\ permCalls = {}
  /\ uriWrites = {}
  /\ faults = 0
  /\ lambda0 = lambda
  /\ stageWrites = {}
  /\ probe = [op |-> "findResourceByPath", names |-> <<>>, keys |-> <<>>, ids |-> <<>>]

\* One call of findResourceByPath (lines 1917-1925) on the listing of the
\* run: the path, its normalized key and the answer are noted, the cache
\* takes the entry the call writes.
FindResourceByPath ==
  /\ pc = "findResourceByPath"
  /\ Len(probe.names) < MaxLookups
  /\ \E path \in LookupPaths :
       LET got == findResourceByPath(loc.LISTING, path)
       IN /\ config' = [config EXCEPT !.apiGatewayResourceCache = got.cache]
          /\ probe' = [probe EXCEPT !.names = Append(@, path),
                                    !.keys = Append(@, NormalizePath(path)),
                                    !.ids = Append(@, [found |-> got.found,
                                                       RESOURCE |-> got.RESOURCE])]
  /\ UNCHANGED <<IS_FORCE, service, lambda, policy, rest, ws, pc, loc, outcome, calls,
                 permCalls, uriWrites, faults, lambda0, stageWrites>>

NextResolve == FindResourceByPath

SpecResolve == InitResolve /\ [][NextResolve]_vars

\* ------------------------------------------------------------- properties

InSeq(x, seq) == \E n \in 1..Len(seq) : seq[n] = x

IsSafe(id) == \A n \in 1..Len(id) : id[n] \in IdClass

MutatingOps ==
  {"updateFunctionConfiguration", "publishVersion", "createAlias", "updateAlias",
   "updateIntegration", "updateWsIntegration", "addPermission", "removePermission",
   "createRestDeployment", "createWsDeployment", "updateRestStage", "updateWsStage",
   "createWsStage"}

\* The alias exists and points at a version equal to the latest
\* configuration, whose environment is the desired one.
Converged(fnState, environment) ==
  /\ fnState.exists
  /\ fnState.alias # NULL
  /\ VersionConfig(fnState, fnState.alias) = fnState.latest
  /\ VersionConfig(fnState, fnState.alias).Environment = environment

ManagedConverged ==
  \A n \in 1..Len(service) :
    service[n].name \notin config.excludedFunctions =>
      Converged(lambda0[service[n].functionName],
                MergeEnv(PROVIDER_ENV, service[n].environment))

\* A read of the Change Detector failed: it then assumes a change.
DetectorReadFailed ==
  \E c \in calls :
    \/ c.op = "getFunctionConfiguration" /\ c.res = "err"
    \/ c.op = "getFunctionConfigurationOfVersion" /\ c.res \in {"err", "nf"}
    \/ c.op = "getAliasInDetector" /\ c.res = "err"

NoMutatingCall == \A c \in calls : c.op \notin MutatingOps

\* C1 (as stated): from a converged state and without --force, a run issues
\* no mutating call at all.
C1_IdempotentWhateverReadsFail == (ManagedConverged /\ ~IS_FORCE) => NoMutatingCall

\* C1: from a converged state and without --force, a run in which every read
\* of the Change Detector succeeds issues no mutating call: no
\* updateFunctionConfiguration, publishVersion, createAlias, updateAlias,
\* updateIntegration, addPermission, removePermission, createDeployment,
\* createStage or updateStage.
C1_Idempotent ==
  (ManagedConverged /\ ~IS_FORCE /\ ~DetectorReadFailed) => NoMutatingCall

\* A converged run that ended after the Change Detector compared a function.
C1_Witness ==
  /\ ManagedConverged /\ ~IS_FORCE /\ ~DetectorReadFailed
  /\ config.restApiId # <<>>
  /\ pc = "done" /\ outcome = "returned"
  /\ Call("getAliasInDetector", "FnA", "ok") \in calls
  /\ Call("getAliasInDetector", "FnB", "ok") \in calls

\* C2 (as stated, here for the runs without --force): for a function that
\* exists with no published version and whose version listing succeeds, no
\* createAlias or updateAlias is issued unless publishVersion completed for
\* it before.
C2_PublishBeforeAlias ==
  \A fn \in PhysicalNames :
    ( /\ ~IS_FORCE
      /\ lambda0[fn].exists
      /\ Len(lambda0[fn].versions) = 0
      /\ Call("listVersionsByFunction", fn, "ok") \in calls
      /\ \E c \in calls : c.fn = fn /\ c.op \in {"createAlias", "updateAlias"} )
    => Call("publishVersion", fn, "ok") \in calls

\* The function qualifier of an integration URI: what stands between
\* ':function:<name>:' and '/invocations'.
QualifierOf(uri) ==
  LET at == CHOOSE n \in 1..Len(uri) : uri[n] = ":function:"
  IN SubSeq(uri, at + 3, Len(uri) - 1)

IsStageVariableExpression(q) ==
  /\ Len(q) >= 3
  /\ q[1] = "${stageVariables."
  /\ q[Len(q)] = "}"
  /\ \A n \in 2..(Len(q) - 1) : q[n] \notin {"${stageVariables.", "}"}

\* C3: every integration URI written, REST or WebSocket, in global and in
\* per-function mode, qualifies the function with ${stageVariables.<key>},
\* never with the literal alias name or a literal version.
C3_UriEmbedsStageVariable ==
  \A w \in uriWrites :
    /\ w.uri[Len(w.uri)] = "/invocations"
    /\ IsStageVariableExpression(QualifierOf(w.uri))
    /\ QualifierOf(w.uri) # config.alias
    /\ QualifierOf(w.uri) # VersionString(w.version)

\* REST and WebSocket URIs were written in per-function mode.
C3_Witness ==
  /\ config.perFunctionStageVars
  /\ \E w \in uriWrites : w.api = "rest"
  /\ \E w \in uriWrites : w.api = "ws"

HasPlaceholder(template) ==
  \E n \in 1..Len(template) : StartsWithAt(template, FN_PLACEHOLDER, n)

IsKeySafe(name) == \A n \in 1..Len(name) : name[n] \in KeyClass

\* C4 (as stated): in per-function mode, whatever the template and the
\* sanitize flag, two distinct logical names get distinct stage-variable
\* expressions, and none is the one of the global key 'alias'.
C4_KeysDistinctForAnyTemplate ==
  (probe.op = "buildStageVarKey" /\ probe.names[1] # probe.names[2]) =>
     /\ probe.ids[1] # probe.ids[2]
     /\ probe.ids[1] # StageVarExpr(GLOBAL_KEY)

\* C4: in per-function mode, when the template holds {functionName} and the
\* names are left alone by the sanitizer (it is off, or they hold letters,
\* digits and underscores only), two distinct logical names get distinct
\* stage-variable expressions; under the default template none is the
\* expression of the global key 'alias'.
C4_KeysDistinct ==
  (probe.op = "buildStageVarKey" /\ probe.names[1] # probe.names[2]) =>
     /\ ( /\ HasPlaceholder(config.stageVarKeyTemplate)
          /\ \/ ~config.stageVarSanitize
             \/ IsKeySafe(probe.names[1]) /\ IsKeySafe(probe.names[2]) )
        => probe.ids[1] # probe.ids[2]
     /\ config.stageVarKeyTemplate = DEFAULT_TEMPLATE
        => probe.ids[1] # StageVarExpr(GLOBAL_KEY)

\* Two distinct names under the default template, sanitized.
C4_Witness ==
  /\ probe.op = "buildStageVarKey"
  /\ probe.names = << <<"f","a">>, <<"f","_","b">> >>
  /\ config.stageVarKeyTemplate = DEFAULT_TEMPLATE
  /\ config.stageVarSanitize
  /\ probe.keys = << <<"f","a","A","l","i","a","s">>, <<"f","_","b","A","l","i","a","s">> >>

\* C5 (as stated): every statement id and every stage-variable key holds
\* letters, digits, underscores and hyphens only, whatever the inputs and
\* the sanitize flag.
C5_IdentifiersSafeForAnySetting ==
  /\ probe.op = "statementIds" => \A n \in 1..Len(probe.ids) : IsSafe(probe.ids[n])
  /\ probe.op = "buildStageVarKey" => \A n \in 1..Len(probe.keys) : IsSafe(probe.keys[n])

\* C5: every statement id holds letters, digits, underscores and hyphens
\* only, whatever the gateway, alias, method and resource or route
\* identifiers; a stage-variable key does when the sanitize flag is set.
C5_IdentifiersSafe ==
  /\ probe.op = "statementIds" => \A n \in 1..Len(probe.ids) : IsSafe(probe.ids[n])
  /\ (probe.op = "buildStageVarKey" /\ config.stageVarSanitize)
       => \A n \in 1..Len(probe.keys) : IsSafe(probe.keys[n])

\* Statement ids built from a gateway id, an alias name, a resource id and a
\* method that all hold unsafe characters.
C5_Witness ==
  /\ probe.op = "statementIds"
  /\ ~IsSafe(config.restApiId) /\ ~IsSafe(config.alias)
  /\ \A n \in 1..Len(probe.names) : ~IsSafe(probe.names[n])

\* C6: however the remove and add calls of the grant steps end, the policy
\* of a permission target holds at most one statement per statement id, and
\* at most one per granted source (gateway, method or route, path): the
\* grants of successive runs for one tuple replace each other.
C6_PermissionNonDuplication ==
  \A s1 \in policy, s2 \in policy :
    ( /\ s1.FunctionName = s2.FunctionName
      /\ \/ s1.StatementId = s2.StatementId
         \/ s1.SourceArn = s2.SourceArn )
    => s1 = s2

\* The grants of an earlier run were removed and granted again.
C6_Witness ==
  /\ pc = "done"
  /\ Call("removePermission", "FnB", "ok") \in calls
  /\ Call("addPermission", "FnB", "ok") \in calls
  /\ lambda["FnB"].alias # lambda0["FnB"].alias
  /\ Cardinality(policy) >= 3

\* C7: every addPermission and removePermission targets the bare function
\* name in per-function mode and '<function>:<alias>' in global mode, for
\* REST and WebSocket events alike.
C7_PermissionTarget ==
  \A c \in permCalls :
    \E fn \in PhysicalNames :
      c.FunctionName = IF config.perFunctionStageVars THEN <<fn>>
                       ELSE <<fn, ":">> \o config.alias

\* Removals and grants for REST and WebSocket events in per-function mode.
C7_Witness ==
  /\ config.perFunctionStageVars
  /\ \E w \in uriWrites : w.api = "rest"
  /\ \E w \in uriWrites : w.api = "ws"
  /\ \E c \in permCalls : c.op = "removePermission" /\ c.FunctionName = <<"FnA">>
  /\ \E c \in permCalls : c.op = "addPermission" /\ c.FunctionName = <<"FnB">>
  /\ Call("addPermission", "FnB", "ok") \in calls

\* The failures of the version and alias pipeline that reach the catch of
\* the loop body.
PropagatingFailure(c) ==
  \/ c.op \in {"getAlias", "getFunction", "publishVersion", "getAliasInManager",
               "updateAlias", "createAlias"} /\ c.res = "err"
  \/ c.op = "updateFunctionConfiguration" /\ c.res \in {"err", "nf"}
  \/ c.op = "pollFunctionConfiguration" /\ c.res = "nf"
  \/ c.op = "waitForFunctionUpdateToComplete" /\ c.res = "timeout"

\* The failures the pipeline absorbs: the version listing falls back to
\* '$LATEST', the Change Detector assumes a change, the poll loop retries.
AbsorbedFailure(c) ==
  /\ c.op \in {"listVersionsByFunction", "getFunctionConfiguration",
               "getFunctionConfigurationOfVersion", "getAliasInDetector",
               "pollFunctionConfiguration"}
  /\ c.res = "err"

\* f is in the failure list, has no alias record, and once the run is over
\* every function after it was processed.
Isolated(n) ==
  /\ InSeq(loc.FUNCTIONS[n].functionName, loc.FAILED_FUNCTIONS)
  /\ \A a \in 1..Len(loc.CREATED_ALIASES) :
       loc.CREATED_ALIASES[a].functionName # loc.FUNCTIONS[n].functionName
  /\ pc = "done" =>
       \A m \in (n + 1)..Len(loc.FUNCTIONS) :
         \E c \in calls : c.op = "getAlias" /\ c.fn = loc.FUNCTIONS[m].functionName

SharedPrerequisiteOps ==
  {"getCallerIdentity", "getResources", "getRoutes", "createRestDeployment",
   "createWsDeployment", "updateRestStage", "getWsStage", "updateWsStage", "createWsStage"}

SynchronizerOps ==
  {"getIntegrations", "updateIntegration", "updateWsIntegration", "addPermission"}

Failed(c) == c.res \in {"err", "conflict"}

C10_SharedFailuresAbort ==
  /\ Call("getCallerIdentity", "", "err") \in calls =>
       outcome = "raised" /\ calls = {Call("getCallerIdentity", "", "err")}
  /\ Call("getResources", "", "err") \in calls =>
       /\ outcome = "raised"
       /\ \A w \in uriWrites : w.api # "rest"
       /\ \A c \in calls : c.op \notin {"updateIntegration", "createRestDeployment"}
  /\ Call("getRoutes", "", "err") \in calls =>
       /\ outcome = "raised"
       /\ \A w \in uriWrites : w.api # "ws"
       /\ \A c \in calls : c.op \notin {"updateWsIntegration", "createWsDeployment"}
  /\ Call("createRestDeployment", "", "err") \in calls =>
       /\ outcome = "raised"
       /\ \A c \in calls : c.op # "updateRestStage"
  /\ Call("createWsDeployment", "", "err") \in calls =>
       /\ outcome = "raised"
       /\ \A c \in calls : c.op \notin {"getWsStage", "updateWsStage", "createWsStage"}

\* The route listing failed after the REST pass rewrote its integrations.
C10_Witness ==
  /\ Call("getRoutes", "", "err") \in calls
  /\ outcome = "raised"
  /\ \E w \in uriWrites : w.api = "rest"
  /\ Call("createRestDeployment", "", "ok") \in calls

\* ---------------------------------------------------------------- C11

\* The events the service declares, each with the function declaring it.
DeclaredEvents ==
  UNION { { <<service[f].name, service[f].events[e]>> : e \in 1..Len(service[f].events) } :
          f \in 1..Len(service) }

DeclaredHttpEvents(withMethodOnly) ==
  {x \in DeclaredEvents : /\ x[2].type = "http"
                          /\ (withMethodOnly => x[2].method # <<>>)}

DeclaredWebSocketEvents == {x \in DeclaredEvents : x[2].type = "websocket"}

\* (a) an http method outside the permitted set, once upper-cased
MethodViolations ==
  { Invalid(x[1], "method", ToUpperCase(x[2].method)) :
      x \in {y \in DeclaredHttpEvents(TRUE) : ToUpperCase(y[2].method) \notin VALID_METHODS} }

\* (b) a methodSettings key outside the permitted set
SettingViolations(withMethodOnly) ==
  UNION { { Invalid(x[1], "setting", <<x[2].methodSettings[n]>>) :
              n \in {m \in 1..Len(x[2].methodSettings) :
                       x[2].methodSettings[m] \notin VALID_SETTINGS} } :
          x \in DeclaredHttpEvents(withMethodOnly) }

\* (c) a websocket event without a route
MissingRouteViolations ==
  { Invalid(x[1], "noRoute", <<>>) :
      x \in {y \in DeclaredWebSocketEvents : y[2].route = <<>>} }

\* (d) a reserved route name outside the allow-list
ReservedRouteViolations ==
  { Invalid(x[1], "route", x[2].route) :
      x \in {y \in DeclaredWebSocketEvents :
               /\ y[2].route # <<>>
               /\ y[2].route[1] = "$"
               /\ y[2].route \notin VALID_ROUTES} }

AllViolations ==
  MethodViolations \cup SettingViolations(FALSE) \cup MissingRouteViolations
  \cup ReservedRouteViolations

\* The violations of the protocols whose gateway identifier is configured.
CheckedViolations ==
  (IF config.restApiId # <<>> THEN MethodViolations \cup SettingViolations(TRUE) ELSE {})
  \cup
  (IF config.websocketApiId # <<>>
   THEN MissingRouteViolations \cup ReservedRouteViolations ELSE {})

Validated == pc = "done" /\ probe.op = "validateConfiguration"

ListedViolations == {probe.ids[n] : n \in 1..Len(probe.ids)}

NothingTouched ==
  /\ calls = {} /\ permCalls = {} /\ uriWrites = {} /\ stageWrites = {}
  /\ lambda = lambda0 /\ policy = {}
  /\ rest = RestGateway({RES_HI, RES_IT}, TRUE) /\ ws = WsGateway(TRUE)

\* C11 as stated: validateConfiguration raises iff the desired configuration
\* holds at least one violation among (a)-(d), whatever gateway identifiers
\* are configured, and the error lists them all.
C11_RaisesOnAnyViolation ==
  Validated =>
    /\ (outcome = "raised") <=> (AllViolations # {})
    /\ outcome = "raised" => ListedViolations = AllViolations
    /\ NothingTouched

\* C11 (amended): validateConfiguration raises one error iff at least one
\* violation exists among those of the protocols whose gateway identifier is
\* configured - (a) and (b) for the http events that declare a method when
\* restApiId is set, (c) and (d) when websocketApiId is set; the error lists
\* each of them and nothing else, a custom route is never listed, and
\* nothing remote is called or changed.
C11_RaisesOnCheckedViolation ==
  Validated =>
    /\ (outcome = "raised") <=> (CheckedViolations # {})
    /\ ListedViolations = CheckedViolations
    /\ \A line \in ListedViolations :
         line.kind = "route" => line.what[1] = "$" /\ line.what \notin VALID_ROUTES
    /\ NothingTouched

\* An error that lists violations of two functions and of both protocols.
C11_Witness ==
  /\ Validated
  /\ outcome = "raised"
  /\ \E a \in ListedViolations, b \in ListedViolations, c \in ListedViolations :
       /\ a.kind = "method" /\ a.funcName = <<"f","-","b">>
       /\ b.kind = "setting" /\ b.funcName = <<"f","a">>
       /\ c.kind = "route"

\* ---------------------------------------------------------------- C12

DetectorOps ==
  {"getFunctionConfiguration", "getFunctionConfigurationOfVersion", "getAliasInDetector"}

\* A forced run listed the versions of a function that had a published one.
ForcedWithPublished(fn) ==
  /\ IS_FORCE
  /\ lambda0[fn].exists
  /\ Len(lambda0[fn].versions) > 0
  /\ Call("listVersionsByFunction", fn, "ok") \in calls

\* C12 (as stated): with --force, for a function that has a published
\* version, the run reads nothing for change detection, issues no
\* updateFunctionConfiguration and no publishVersion, and the alias it
\* creates or updates, and the record it passes to synchronization, hold the
\* newest published version of the function.
C12_ForceUsesNewestPublished ==
  \A fn \in PhysicalNames :
    ForcedWithPublished(fn) =>
      /\ \A c \in calls :
           c.fn = fn =>
             c.op \notin DetectorOps \cup {"updateFunctionConfiguration", "publishVersion"}
      /\ \A a \in 1..Len(loc.CREATED_ALIASES) :
           loc.CREATED_ALIASES[a].functionName = fn =>
             loc.CREATED_ALIASES[a].version = Len(lambda0[fn].versions)
      /\ (\E c \in calls : c.fn = fn /\ c.op \in {"createAlias", "updateAlias"} /\ c.res = "ok")
           => lambda[fn].alias = Len(lambda0[fn].versions)

\* ---------------------------------------------------------------- C13

\* At the start of the run every managed function is converged, its alias
\* points at its newest published version, and that version is within the
\* page of the version listing.
ManagedOnNewest ==
  /\ ManagedConverged
  /\ \A n \in 1..Len(service) :
       service[n].name \notin config.excludedFunctions =>
         LET fnState == lambda0[service[n].functionName]
         IN /\ fnState.alias = Len(fnState.versions)
            /\ Len(fnState.versions) >= 1
            /\ Len(fnState.versions) < MaxItems

ListingFailed == \E c \in calls : c.op = "listVersionsByFunction" /\ c.res = "err"

AliasOps == {"updateFunctionConfiguration", "publishVersion", "createAlias", "updateAlias"}

\* C13 (as stated, for the runs whose version listings succeed and show the
\* newest version): a forced run from a state where every alias points at
\* the newest published version and nothing changed issues no alias update,
\* no integration rewrite, no permission removal or addition, no deployment
\* and no stage update.
C13_ForcedRunMutatesNothing ==
  (IS_FORCE /\ ManagedOnNewest /\ ~ListingFailed) => NoMutatingCall

\* C13: a forced run from a state where every alias points at the newest
\* published version (one of the first 19) and nothing changed, and whose
\* version listings succeed, issues no updateFunctionConfiguration, no
\* publishVersion, no createAlias and no updateAlias; every function whose
\* alias is read back is passed on to synchronization with that version,
\* and a run that returns without a failed function has passed them all.
C13_ForcedRunKeepsAliases ==
  (IS_FORCE /\ ManagedOnNewest /\ ~ListingFailed) =>
    /\ \A c \in calls : c.op \notin AliasOps
    /\ \A fn \in PhysicalNames :
         Call("getAliasInManager", fn, "ok") \in calls =>
           \E a \in 1..Len(loc.CREATED_ALIASES) :
             /\ loc.CREATED_ALIASES[a].functionName = fn
             /\ loc.CREATED_ALIASES[a].version = lambda0[fn].alias
    /\ (pc = "done" /\ outcome = "returned" /\ loc.FAILED_FUNCTIONS = <<>>) =>
         Len(loc.CREATED_ALIASES) = Len(getFunctionsForAliasDeployment)

\* A forced run from a converged state that returned after it rewrote the
\* integrations, replaced the grants, deployed and updated the stages.
C13_Witness ==
  /\ IS_FORCE /\ ManagedOnNewest /\ ~ListingFailed
  /\ pc = "done" /\ outcome = "returned"
  /\ Len(loc.CREATED_ALIASES) = 2
  /\ Call("updateIntegration", "FnA", "ok") \in calls
  /\ Call("addPermission", "FnB", "ok") \in calls
  /\ Call("createRestDeployment", "", "ok") \in calls
  /\ Call("updateRestStage", "", "ok") \in calls
  /\ Call("createWsDeployment", "", "ok") \in calls

\* ---------------------------------------------------------------- C14

\* The physical names of the functions of the service whose logical name is
\* in the excluded-function set.
ExcludedFunctions ==
  {service[n].functionName : n \in {m \in 1..Len(service) :
                                      service[m].name \in config.excludedFunctions}}

\* C14: for a function whose logical name is excluded, the run issues no
\* remote call (no alias probe, version listing, configuration read or
\* update, publish, alias create or update, integration rewrite, permission
\* removal or grant), leaves its remote state, its integration URIs and its
\* policy as they were, and makes no alias record for it, whatever events it
\* declares.
C14_ExcludedUntouched ==
  \A fn \in ExcludedFunctions :
    /\ \A c \in calls : c.fn # fn
    /\ \A c \in permCalls : c.FunctionName[1] # fn
    /\ \A w \in uriWrites : w.functionName # fn
    /\ lambda[fn] = lambda0[fn]
    /\ \A x \in DOMAIN rest.integrations :
         x.resourceId = RES_IT.id => rest.integrations[x] = OriginalUri(fn)
    /\ \A x \in ws.integrations :
         x.IntegrationId = "i2" => x.IntegrationUri = OriginalUri(fn)
    /\ \A s \in policy : s.FunctionName[1] # fn
    /\ \A a \in 1..Len(loc.CREATED_ALIASES) : loc.CREATED_ALIASES[a].functionName # fn

\* A run with the second function excluded, which declares a REST and a
\* WebSocket event and has changed since its version, returned after it
\* synchronized the first function.
C14_Witness ==
  /\ ExcludedFunctions = {"FnB"}
  /\ config.restApiId # <<>>
  /\ lambda0["FnB"].latest.Environment # MergeEnv(PROVIDER_ENV, service[2].environment)
  /\ pc = "done" /\ outcome = "returned"
  /\ \E w \in uriWrites : w.api = "rest" /\ w.functionName = "FnA"
  /\ \E w \in uriWrites : w.api = "ws" /\ w.functionName = "FnA"
  /\ Call("addPermission", "FnA", "ok") \in calls
  /\ Call("createWsDeployment", "", "ok") \in calls

\* ---------------------------------------------------------------- C15

RestDeployOps == {"createRestDeployment", "updateRestStage"}
WsDeployOps == {"createWsDeployment", "getWsStage", "updateWsStage", "createWsStage"}

\* The run returned after it synchronized at least one function.
SynchronizedAndReturned ==
  /\ pc = "done" /\ outcome = "returned"
  /\ Len(loc.CREATED_ALIASES) > 0
  /\ config.restApiId # <<>> /\ config.websocketApiId # <<>>

\* The statement id of the stage grant of a record's REST event, or of its
\* WebSocket event.
GrantId(api, alias) ==
  IF api = "rest"
  THEN IF alias.functionName = "FnA"
       THEN STAGE_STATEMENT_ID(alias, RES_HI.id, <<"G","E","T">>)
       ELSE STAGE_STATEMENT_ID(alias, RES_IT.id, <<"P","O","S","T">>)
  ELSE WS_STATEMENT_ID(alias, IF alias.functionName = "FnA" THEN ROUTE_1.RouteId
                              ELSE ROUTE_2.RouteId)

\* Every alias record whose REST resource (WebSocket route and integration)
\* exists had its integration rewritten and its permission granted.
Rewritten(api) ==
  \A a \in 1..Len(loc.CREATED_ALIASES) :
    LET fn == loc.CREATED_ALIASES[a].functionName
    IN (api = "rest" /\ fn = "FnA" /\ RES_HI \notin rest.resources) \/
       (api = "ws" /\ fn = "FnA" /\ ROUTE_1 \notin ws.routes) \/
       (api = "ws" /\ fn = "FnA" /\ \A x \in ws.integrations : x.IntegrationId # "i1") \/
       /\ \E w \in uriWrites : w.api = api /\ w.functionName = fn
       /\ \E c \in permCalls :
            /\ c.op = "addPermission"
            /\ c.FunctionName[1] = fn
            /\ c.StatementId = GrantId(api, loc.CREATED_ALIASES[a])

\* C15: with skipApiGateway the run issues no REST createDeployment and no
\* REST stage update, and the REST gateway keeps its deployment, yet the
\* REST integrations and permissions of the synchronized functions are
\* rewritten; with skipWebSocketGateway it issues no WebSocket
\* createDeployment, getStage, updateStage or createStage, yet the WebSocket
\* integrations are rewritten; with one flag only, the other protocol is
\* deployed and its stage bound to the new deployment.
C15_SkipDeployment ==
  /\ config.skipApiGateway =>
       /\ \A c \in calls : c.op \notin RestDeployOps
       /\ rest.deployments = 1 /\ rest.stage.deploymentId \in {1, NULL}
       /\ SynchronizedAndReturned => Rewritten("rest")
  /\ config.skipWebSocketGateway =>
       /\ \A c \in calls : c.op \notin WsDeployOps
       /\ ws.deployments = 1
       /\ SynchronizedAndReturned => Rewritten("ws")
  /\ (config.skipApiGateway /\ ~config.skipWebSocketGateway /\ SynchronizedAndReturned) =>
       /\ Call("createWsDeployment", "", "ok") \in calls
       /\ \E c \in calls : c.op \in {"updateWsStage", "createWsStage"} /\ c.res = "ok"
       /\ ws.stage.exists /\ ws.stage.deploymentId = ws.deployments
  /\ (config.skipWebSocketGateway /\ ~config.skipApiGateway /\ SynchronizedAndReturned) =>
       /\ Call("createRestDeployment", "", "ok") \in calls
       /\ ~config.skipSetGlobalStageVar => Call("updateRestStage", "", "ok") \in calls
       /\ rest.deployments = 2 /\ rest.stage.deploymentId = rest.deployments

\* A run with skipApiGateway alone returned after it rewrote the REST
\* integrations of both functions and deployed the WebSocket gateway.
C15_Witness ==
  /\ config.skipApiGateway /\ ~config.skipWebSocketGateway
  /\ SynchronizedAndReturned
  /\ Len(loc.CREATED_ALIASES) = 2
  /\ RES_HI \in rest.resources
  /\ Rewritten("rest")
  /\ Call("createWsDeployment", "", "ok") \in calls

\* ---------------------------------------------------------------- C16

\* deployApiGateway returned: the deployment was created and, unless the
\* stage variable is skipped, the stage was updated.
RestTriggerCompleted ==
  /\ Call("createRestDeployment", "", "ok") \in calls
  /\ config.skipSetGlobalStageVar \/ Call("updateRestStage", "", "ok") \in calls

\* deployWebSocketApi returned: the stage was updated or created.
WsTriggerCompleted ==
  \E c \in calls : c.op \in {"updateWsStage", "createWsStage"} /\ c.res = "ok"

\* The stage exists and is bound to the deployment created in this run.
BoundToNewDeployment(gateway) ==
  /\ gateway.stage.exists
  /\ gateway.deployments = 2
  /\ gateway.stage.deploymentId = gateway.deployments

\* C16 (as stated): in global mode, once the Deployment Trigger completed
\* for a protocol, the stage exists, is bound to the deployment created in
\* this run, and its 'alias' variable equals the configured alias name.
C16_TriggerSetsAliasVariable ==
  ~config.perFunctionStageVars =>
    /\ RestTriggerCompleted =>
         BoundToNewDeployment(rest) /\ rest.stage.alias = config.alias
    /\ WsTriggerCompleted =>
         BoundToNewDeployment(ws) /\ ws.stage.alias = config.alias

\* C16: in global mode, once the Deployment Trigger completed for a
\* protocol, the stage exists and is bound to the deployment created in
\* this run, whether it existed before or not; its 'alias' variable equals
\* the configured alias name unless custom.alias.skipSetGlobalStageVar is
\* set, in which case no stage variable is written and the variable is left
\* as it was.
C16_TriggerBindsStage ==
  ~config.perFunctionStageVars =>
    /\ RestTriggerCompleted =>
         /\ BoundToNewDeployment(rest)
         /\ rest.stage.alias = IF config.skipSetGlobalStageVar THEN <<>> ELSE config.alias
    /\ WsTriggerCompleted =>
         /\ BoundToNewDeployment(ws)
         /\ ws.stage.alias = IF config.skipSetGlobalStageVar THEN <<>> ELSE config.alias
    /\ config.skipSetGlobalStageVar => stageWrites = {}

\* A run in global mode created the missing stages of both gateways and set
\* their 'alias' variable.
C16_Witness ==
  /\ ~config.perFunctionStageVars /\ ~config.skipSetGlobalStageVar
  /\ pc = "done" /\ outcome = "returned"
  /\ RestTriggerCompleted /\ WsTriggerCompleted
  /\ Call("getWsStage", "", "nf") \in calls
  /\ Call("createWsStage", "", "ok") \in calls
  /\ Cardinality(stageWrites) = 2

\* ---------------------------------------------------------------- C17

\* C17: in per-function mode the run writes no stage variable: it issues no
\* REST updateStage, its WebSocket updateStage and createStage carry no
\* StageVariables, and the 'alias' variable of both stages stays as it was;
\* the deployments are still created and the stages bound to them.
C17_PerFunctionWritesNoStageVariable ==
  config.perFunctionStageVars =>
    /\ stageWrites = {}
    /\ \A c \in calls : c.op # "updateRestStage"
    /\ rest.stage.alias = <<>> /\ ws.stage.alias = <<>>
    /\ (SynchronizedAndReturned /\ ~config.skipApiGateway) =>
         Call("createRestDeployment", "", "ok") \in calls /\ BoundToNewDeployment(rest)
    /\ (SynchronizedAndReturned /\ ~config.skipWebSocketGateway) =>
         /\ Call("createWsDeployment", "", "ok") \in calls
         /\ WsTriggerCompleted
         /\ BoundToNewDeployment(ws)

\* A run in per-function mode returned after it deployed both gateways and
\* updated the WebSocket stage.
C17_Witness ==
  /\ config.perFunctionStageVars
  /\ SynchronizedAndReturned
  /\ Call("createRestDeployment", "", "ok") \in calls
  /\ Call("updateWsStage", "", "ok") \in calls
  /\ BoundToNewDeployment(ws)

\* ---------------------------------------------------------------- C18

DesiredEnvironment(fn) ==
  LET n == CHOOSE m \in 1..Len(service) : service[m].functionName = fn
  IN MergeEnv(PROVIDER_ENV, service[n].environment)

\* The record the run made for a function.
RecordOf(fn) ==
  loc.CREATED_ALIASES[CHOOSE a \in 1..Len(loc.CREATED_ALIASES) :
                        loc.CREATED_ALIASES[a].functionName = fn]

\* Without --force, the Change Detector answered 'changed' for a function
\* whose alias existed, and the run made an alias record for it.
ChangedAndAliased(fn) ==
  /\ ~IS_FORCE
  /\ lambda0[fn].exists /\ lambda0[fn].alias # NULL
  /\ \E c \in calls : c.op = "updateFunctionConfiguration" /\ c.fn = fn
  /\ \E a \in 1..Len(loc.CREATED_ALIASES) : loc.CREATED_ALIASES[a].functionName = fn

\* C18 (as stated, for the runs in which every read of the Change Detector
\* succeeds): when a change is detected for a function whose alias points at
\* v, the run pushes the desired environment, publishes one new version
\* v' > v with that environment and updates the alias from v to v', with no
\* createAlias.
C18_PublishesNewVersion ==
  \A fn \in PhysicalNames :
    (ChangedAndAliased(fn) /\ ~DetectorReadFailed) =>
      /\ lambda[fn].latest.Environment = DesiredEnvironment(fn)
      /\ Len(lambda[fn].versions) = Len(lambda0[fn].versions) + 1
      /\ RecordOf(fn).version = Len(lambda[fn].versions)
      /\ RecordOf(fn).version > lambda0[fn].alias
      /\ lambda[fn].versions[RecordOf(fn).version].Environment = DesiredEnvironment(fn)
      /\ Call("updateAlias", fn, "ok") \in calls
      /\ lambda[fn].alias = RecordOf(fn).version
      /\ \A c \in calls : c.fn = fn => c.op # "createAlias"

\* C18: when the Change Detector answers 'changed' for a function whose
\* alias points at v, the run pushes the desired environment, issues one
\* publishVersion and leaves the alias on the version v' it answers, the
\* newest one, v' >= v, whose environment is the desired one. At most one
\* version is new: none when the newest published version already equals the
\* configuration after the push. updateAlias is issued, once, exactly when
\* v' # v; createAlias only after that updateAlias found the alias gone.
C18_PublishesAndConverges ==
  /\ \A fn \in PhysicalNames :
       ChangedAndAliased(fn) =>
         LET vNew == RecordOf(fn).version
             before == lambda0[fn].versions
             pushed == [lambda0[fn].latest EXCEPT !.Environment = DesiredEnvironment(fn)]
         IN /\ Call("updateFunctionConfiguration", fn, "ok") \in calls
            /\ Call("publishVersion", fn, "ok") \in calls
            /\ lambda[fn].latest = pushed
            /\ vNew = Len(lambda[fn].versions)
            /\ vNew >= lambda0[fn].alias
            /\ lambda[fn].versions[vNew] = pushed
            /\ lambda[fn].versions =
                 IF Len(before) > 0 /\ before[Len(before)] = pushed THEN before
                 ELSE Append(before, pushed)
            /\ lambda[fn].alias = vNew
            /\ (\E c \in calls : c.fn = fn /\ c.op = "updateAlias") <=> vNew # lambda0[fn].alias
            /\ (\E c \in calls : c.fn = fn /\ c.op = "createAlias") <=>
                 Call("updateAlias", fn, "nf") \in calls
  /\ pc \in {"updateFunctionConfiguration", "publishVersion", "updateAlias"} =>
       \A c \in calls : c.fn = FUNCTION.functionName => c.op # pc

\* The alias of the first function pointed at version 1, its code changed,
\* and the run published version 2 and moved the alias to it.
C18_Witness ==
  /\ ChangedAndAliased("FnA") /\ ~DetectorReadFailed
  /\ pc = "done" /\ outcome = "returned"
  /\ lambda0["FnA"].alias = 1 /\ Len(lambda0["FnA"].versions) = 1
  /\ lambda0["FnA"].latest.CodeSha256 # lambda0["FnA"].versions[1].CodeSha256
  /\ Len(lambda["FnA"].versions) = 2
  /\ lambda["FnA"].alias = 2
  /\ RecordOf("FnA").version = 2
  /\ Call("updateAlias", "FnA", "ok") \in calls

\* ---------------------------------------------------------------- C19

\* The step issued a remote call that the provider rejected.
RejectedCall == \E c \in calls' \ calls : c.res = "err"

\* C19 (as stated): an operation the provider rejects with a rate-limit
\* error is attempted again, up to custom.alias.maxRetries times (3 by
\* default), before the error is surfaced: the step after a first rejection
\* is the same operation, not the handling of its failure.
C19_RateLimitRetried == [][RejectedCall => pc' = pc]_vars

\* ---------------------------------------------------------------- C20

\* The step is a read of the Change Detector that fails: the latest
\* configuration with any error, the configuration of the comparison
\* version with NotFound or any other error, the alias probe with an error
\* other than NotFound.
DetectorReadFails ==
  \E c \in calls' \ calls :
    \/ c.op = "getFunctionConfiguration" /\ c.res = "err"
    \/ c.op = "getFunctionConfigurationOfVersion" /\ c.res \in {"err", "nf"}
    \/ c.op = "getAliasInDetector" /\ c.res = "err"

\* C20: whenever a read of haveFunctionChanges fails, the check answers
\* 'changed': the function goes on to the configuration update and the
\* publish; the check does not raise (the function is not recorded as
\* failed, the run goes on) and does not answer 'unchanged' (the function is
\* neither skipped nor aliased without a publish).
C20_DetectorFailsTowardChanged ==
  [][DetectorReadFails =>
       /\ pc' = "updateFunctionConfiguration"
       /\ outcome' = "running"
       /\ loc'.i = loc.i
       /\ loc'.FAILED_FUNCTIONS = loc.FAILED_FUNCTIONS
       /\ loc'.CREATED_ALIASES = loc.CREATED_ALIASES]_vars

\* From a converged state the alias probe of the Change Detector failed, and
\* the first function is about to be updated and published.
C20_Witness ==
  /\ ManagedConverged /\ ~IS_FORCE
  /\ pc = "updateFunctionConfiguration"
  /\ loc.i = 1
  /\ Call("getFunctionConfigurationOfVersion", "FnA", "ok") \in calls
  /\ Call("getAliasInDetector", "FnA", "err") \in calls

\* ---------------------------------------------------------------- C21

\* Two layer lists are equal as sorted lists: one is the other reordered.
SameWhenSorted(a, b) ==
  /\ Len(a) = Len(b)
  /\ \E f \in [1..Len(a) -> 1..Len(b)] :
       /\ \A n \in 1..Len(a), m \in 1..Len(a) : f[n] = f[m] => n = m
       /\ \A n \in 1..Len(a) : a[n] = b[f[n]]

\* The latest configuration and the version agree on the compared fields,
\* the three environments have the same keys with the same values, and the
\* layers are the same up to their order.
AllAgree(latest, version, desired) ==
  /\ latest.CodeSha256 = version.CodeSha256
  /\ latest.Handler = version.Handler
  /\ latest.Runtime = version.Runtime
  /\ latest.MemorySize = version.MemorySize
  /\ latest.Timeout = version.Timeout
  /\ latest.Role = version.Role
  /\ DOMAIN version.Environment = DOMAIN latest.Environment
  /\ DOMAIN version.Environment = DOMAIN desired
  /\ \A key \in DOMAIN version.Environment :
       /\ version.Environment[key] = latest.Environment[key]
       /\ version.Environment[key] = desired[key]
  /\ SameWhenSorted(version.Layers, latest.Layers)

DetectorPcs == {"haveFunctionChanges", "compareVersion", "compareAlias"}

\* C21: when all its reads succeed, haveFunctionChanges answers 'unchanged'
\* exactly when the latest configuration and the comparison version agree on
\* content hash, handler, runtime, memory size, timeout and role, the
\* environments of the version, of the latest configuration and of the
\* desired state have the same keys and values, and the layers are equal as
\* sorted lists; in every other case it answers 'changed' (the function goes
\* on to the configuration update).
C21_DetectorAnswer ==
  (pc \notin DetectorPcs /\ ~DetectorReadFailed) =>
    (pc # "updateFunctionConfiguration" <=>
       AllAgree(lambda0["FnA"].latest, lambda0["FnA"].versions[1], service[1].environment))

\* The layers of the version are those of the latest configuration in the
\* other order, everything else agrees, the reads succeeded and the check
\* answered 'unchanged'.
C21_Witness ==
  /\ pc = "done" /\ ~DetectorReadFailed
  /\ lambda0["FnA"].latest.Layers = <<"arn:l1", "arn:l2">>
  /\ lambda0["FnA"].versions[1].Layers = <<"arn:l2", "arn:l1">>
  /\ Call("getAliasInDetector", "FnA", "ok") \in calls

\* ---------------------------------------------------------------- C22

\* C22 (as stated): the version handed to the Change Detector is the one the
\* alias points at when the alias exists, and otherwise the newest published
\* version of the function, the greatest of all its version numbers, however
\* many versions were published.
C22_ComparisonVersion ==
  pc = "haveFunctionChanges" =>
    LET fnState == lambda[FUNCTION.functionName]
    IN ( /\ Call("listVersionsByFunction", FUNCTION.functionName, "ok") \in calls
         /\ Len(fnState.versions) > 0 )
       => loc.COMPARE_VERSION = IF fnState.alias # NULL THEN fnState.alias
                                ELSE Len(fnState.versions)

\* ---------------------------------------------------------------- C23

\* The Change Detector answered 'unchanged' for a function whose alias
\* exists: its alias probe, the last read of the check, found the alias.
Skipped(fn) == ~IS_FORCE /\ Call("getAliasInDetector", fn, "ok") \in calls

\* C23: a function for which no change is detected and whose alias exists
\* gets no configuration update, publish, alias probe of the Alias Manager,
\* createAlias or updateAlias, and no alias record; whatever the other
\* functions of the batch go through, none of its integrations is read or
\* rewritten and none of its permission statements removed or added: its
\* remote state, its integration URIs and its policy stay as they were.
C23_SkipIsTerminal ==
  \A fn \in PhysicalNames :
    Skipped(fn) =>
      /\ \A c \in calls :
           c.fn = fn => c.op \in {"getAlias", "getFunction", "listVersionsByFunction"}
                                   \cup DetectorOps
      /\ \A a \in 1..Len(loc.CREATED_ALIASES) : loc.CREATED_ALIASES[a].functionName # fn
      /\ ~InSeq(fn, loc.FAILED_FUNCTIONS)
      /\ \A w \in uriWrites : w.functionName # fn
      /\ \A c \in permCalls : c.FunctionName[1] # fn
      /\ lambda[fn] = lambda0[fn]
      /\ \A x \in DOMAIN rest.integrations :
           x.resourceId = (IF fn = "FnA" THEN RES_HI.id ELSE RES_IT.id)
             => rest.integrations[x] = OriginalUri(fn)
      /\ \A x \in ws.integrations :
           x.IntegrationId = (IF fn = "FnA" THEN "i1" ELSE "i2")
             => x.IntegrationUri = OriginalUri(fn)
      /\ {s \in policy : s.FunctionName[1] = fn} \in {{}, PriorStatements}

\* The first function changed and was synchronized, the second, with the
\* grants of an earlier run, was skipped, and the run returned.
C23_Witness ==
  /\ Skipped("FnB")
  /\ pc = "done" /\ outcome = "returned"
  /\ Call("publishVersion", "FnA", "ok") \in calls
  /\ \E w \in uriWrites : w.api = "rest" /\ w.functionName = "FnA"
  /\ \E w \in uriWrites : w.api = "ws" /\ w.functionName = "FnA"
  /\ Call("addPermission", "FnA", "ok") \in calls
  /\ {s \in policy : s.FunctionName[1] = "FnB"} = PriorStatements

\* ---------------------------------------------------------------- C24

\* Without --force, the Change Detector answered 'unchanged' for a function
\* that had a published version and no alias: its alias probe, the last read
\* of the check, found none.
UnchangedWithoutAlias(fn) ==
  /\ ~IS_FORCE
  /\ Len(lambda0[fn].versions) > 0
  /\ lambda0[fn].alias = NULL
  /\ Call("getAliasInDetector", fn, "nf") \in calls

\* C24 (as stated): for a function with a published version, no alias and no
\* change detected, the run issues no updateFunctionConfiguration and no
\* publishVersion, and the alias it creates, and the record it passes to
\* synchronization, hold the newest published version.
C24_UseLatest ==
  \A fn \in PhysicalNames :
    UnchangedWithoutAlias(fn) =>
      /\ \A c \in calls :
           c.fn = fn => c.op \notin {"updateFunctionConfiguration", "publishVersion",
                                      "updateAlias"}
      /\ Call("createAlias", fn, "ok") \in calls =>
           /\ lambda[fn].alias = Len(lambda0[fn].versions)
           /\ \E a \in 1..Len(loc.CREATED_ALIASES) :
                /\ loc.CREATED_ALIASES[a].functionName = fn
                /\ loc.CREATED_ALIASES[a].version = Len(lambda0[fn].versions)

\* ---------------------------------------------------------------- C25

\* The outcome of the probe that opens createOrUpdateAlias, and the mutating
\* calls issued for the function.
Probed(fn, res) == Call("getAliasInManager", fn, res) \in calls
Issued(op, fn) == \E c \in calls : c.op = op /\ c.fn = fn

RecordsOf(fn) == {a \in 1..Len(loc.CREATED_ALIASES) : loc.CREATED_ALIASES[a].functionName = fn}

\* The loop body has ended for the function: it holds a record or is listed
\* as failed.
Finished(fn) == RecordsOf(fn) # {} \/ InSeq(fn, loc.FAILED_FUNCTIONS)

\* C25 (as stated): createOrUpdateAlias issues exactly one of createAlias,
\* updateAlias or no mutating call: createAlias if and only if the alias does
\* not exist, updateAlias if and only if it exists and points elsewhere,
\* nothing if it already points at the target; on every successful return
\* the alias points at the target.
C25_ThreeWayOutcome ==
  \A fn \in PhysicalNames :
    /\ ~(Issued("createAlias", fn) /\ Issued("updateAlias", fn))
    /\ Issued("createAlias", fn) => Probed(fn, "nf")
    /\ Issued("updateAlias", fn) => Probed(fn, "ok")
    /\ (Finished(fn) /\ Probed(fn, "nf")) => Issued("createAlias", fn)
    /\ \A a \in RecordsOf(fn) :
         LET version == loc.CREATED_ALIASES[a].version
         IN /\ lambda[fn].alias = version
            /\ Probed(fn, "ok") => (Issued("updateAlias", fn) <=> lambda0[fn].alias # version)

\* ---------------------------------------------------------------- C26

\* The function is recorded as failed and holds no alias record.
FailedWithoutRecord(fn) == InSeq(fn, loc.FAILED_FUNCTIONS) /\ RecordsOf(fn) = {}

\* C26 (as stated): a failure of the alias probe other than not-found is
\* raised with no createAlias or updateAlias issued, a failure of createAlias
\* or updateAlias is raised as well, and in each case the function is
\* recorded as failed with no alias record.
C26_AliasFailurePropagates ==
  \A fn \in PhysicalNames :
    /\ Probed(fn, "err") =>
         /\ ~Issued("createAlias", fn)
         /\ ~Issued("updateAlias", fn)
         /\ FailedWithoutRecord(fn)
    /\ \A c \in calls :
         (c.fn = fn /\ c.op \in {"createAlias", "updateAlias"} /\ c.res # "ok") =>
            FailedWithoutRecord(fn)

\* ---------------------------------------------------------------- C27

\* One iteration of the poll loop whose read succeeded and reported the
\* update status 'Failed'.
PolledFailed ==
  /\ pc = "waitForFunctionUpdateToComplete"
  /\ faults' = faults
  /\ lambda'[FUNCTION.functionName].LastUpdateStatus = "Failed"

\* C27 (as stated): a poll that reports the status 'Failed' ends the loop at
\* once: the error is raised, no further poll is issued, and the error is
\* the update failure, not a timeout.
C27_FailedIsTerminal ==
  [][PolledFailed =>
       /\ pc' # "waitForFunctionUpdateToComplete"
       /\ InSeq(FUNCTION.functionName, loc'.FAILED_FUNCTIONS)
       /\ Call("waitForFunctionUpdateToComplete", FUNCTION.functionName, "timeout") \notin calls']_vars

\* ---------------------------------------------------------------- C28

TimedOut(fn) == Call("waitForFunctionUpdateToComplete", fn, "timeout") \in calls

\* C28: the poll loop ends. Every iteration is one configuration read that
\* either goes on with the count of reads one higher and below the cap of 30,
\* returns normally after a read that reported 'Successful', or leaves the
\* function with a raised error; the error is the timeout exactly when the
\* thirtieth read neither returned nor raised not-found.
C28_PollLoopEnds ==
  [][pc = "waitForFunctionUpdateToComplete" =>
       LET fn == FUNCTION.functionName
           reads == loc.retries + 1
       IN /\ reads <= MAX_RETRIES
          /\ \/ /\ pc' = "waitForFunctionUpdateToComplete"
                /\ loc'.retries = reads
                /\ reads < MAX_RETRIES
                /\ loc'.i = loc.i
             \/ /\ pc' = "publishVersion"
                /\ lambda'[fn].LastUpdateStatus = "Successful"
                /\ faults' = faults
             \/ /\ InSeq(fn, loc'.FAILED_FUNCTIONS)
                /\ pc' # "waitForFunctionUpdateToComplete"
                /\ Call("pollFunctionConfiguration", fn, "nf") \notin calls' =>
                     /\ reads = MAX_RETRIES
                     /\ Call("waitForFunctionUpdateToComplete", fn, "timeout") \in calls'
                /\ Call("waitForFunctionUpdateToComplete", fn, "timeout") \in calls' =>
                     reads = MAX_RETRIES]_vars

\* The cap was exhausted: thirty reads, then the timeout.
C28_Witness == \E fn \in PhysicalNames : TimedOut(fn) /\ InSeq(fn, loc.FAILED_FUNCTIONS)

\* ---------------------------------------------------------------- C29

\* publishVersion is about to be issued, or was issued, for the function.
AtPublish(fn) ==
  \/ pc = "publishVersion" /\ FUNCTION.functionName = fn
  \/ Issued("publishVersion", fn)

\* The configuration update failed, or the poll loop ended in a raised
\* error: not-found, or the timeout.
UpdateDidNotComplete(fn) ==
  \/ \E res \in {"err", "nf"} : Call("updateFunctionConfiguration", fn, res) \in calls
  \/ Call("pollFunctionConfiguration", fn, "nf") \in calls
  \/ TimedOut(fn)

\* C29: publishVersion is issued for a function only after its
\* updateFunctionConfiguration with the desired environment succeeded and a
\* later poll read the update status 'Successful'; when the update fails
\* (not-found included), or the poll loop raises not-found or times out, no
\* publishVersion is issued for it.
C29_PublishAfterUpdate ==
  \A fn \in PhysicalNames :
    /\ AtPublish(fn) =>
         /\ Call("updateFunctionConfiguration", fn, "ok") \in calls
         /\ Call("pollFunctionConfiguration", fn, "ok") \in calls
         /\ lambda[fn].LastUpdateStatus = "Successful"
         /\ lambda[fn].latest.Environment = DesiredEnvironment(fn)
    /\ UpdateDidNotComplete(fn) => ~AtPublish(fn)

\* A version was published after a poll that had first failed to read.
C29_Witness ==
  \E fn \in PhysicalNames :
    /\ Call("publishVersion", fn, "ok") \in calls
    /\ Call("pollFunctionConfiguration", fn, "err") \in calls

\* ---------------------------------------------------------------- C30

\* The step issues the call op for the function.
Issues(op, fn) == \E c \in calls' \ calls : c.op = op /\ c.fn = fn

\* An integration of the function was read or rewritten, or one of its
\* permission statements removed or added.
Synchronized(fn) ==
  \/ \E w \in uriWrites : w.functionName = fn
  \/ \E c \in permCalls : c.FunctionName[1] = fn
  \/ \E c \in calls : c.fn = fn /\ c.op \in SynchronizerOps

\* The alias convergence of the function succeeded: its last alias call did,
\* the run holds its record, and the alias points at the recorded version.
AliasConverged(fn) ==
  /\ \/ Call("createAlias", fn, "ok") \in calls
     \/ Call("updateAlias", fn, "ok") \in calls
     \/ Probed(fn, "ok") /\ ~Issued("updateAlias", fn)
  /\ RecordsOf(fn) # {}
  /\ \A a \in RecordsOf(fn) : lambda[fn].alias = loc.CREATED_ALIASES[a].version
  /\ ~InSeq(fn, loc.FAILED_FUNCTIONS)

\* C30: for every function, publishVersion is never issued after its
\* createAlias or updateAlias, and when the function went through the
\* configuration update its alias calls are issued after publishVersion
\* succeeded; its alias calls precede every read or rewrite of its
\* integrations and every change of its permission statements, and these
\* happen only once its alias convergence has succeeded.
C30_StepOrdering ==
  [][\A fn \in PhysicalNames :
       /\ Issues("publishVersion", fn) =>
            ~Issued("createAlias", fn) /\ ~Issued("updateAlias", fn)
       /\ (Issues("createAlias", fn) \/ Issues("updateAlias", fn)) =>
            /\ Issued("updateFunctionConfiguration", fn) =>
                 Call("publishVersion", fn, "ok") \in calls
            /\ ~Issued("publishVersion", fn) \/ Call("publishVersion", fn, "ok") \in calls
            /\ ~Synchronized(fn)'
       /\ Synchronized(fn)' => AliasConverged(fn) /\ AliasConverged(fn)']_vars

\* A function was published, aliased and then synchronized, while another
\* one failed and was left alone.
C30_Witness ==
  \E fn \in PhysicalNames :
    /\ Call("publishVersion", fn, "ok") \in calls
    /\ Call("updateAlias", fn, "ok") \in calls
    /\ \E w \in uriWrites : w.functionName = fn
    /\ \E c \in permCalls : c.FunctionName[1] = fn
    /\ \E other \in PhysicalNames \ {fn} : InSeq(other, loc.FAILED_FUNCTIONS)

\* ---------------------------------------------------------------- C31

\* The routing objects the events of a function resolve to, and whether a
\* configured gateway lacks them.
ResourceOf(fn) == IF fn = "FnA" THEN RES_HI ELSE RES_IT
MethodOf(fn) == IF fn = "FnA" THEN <<"G","E","T">> ELSE <<"P","O","S","T">>
RouteOf(fn) == IF fn = "FnA" THEN ROUTE_1 ELSE ROUTE_2

RestResourceMissing(fn) == config.restApiId # <<>> /\ ResourceOf(fn) \notin rest.resources
WsRouteMissing(fn) == config.websocketApiId # <<>> /\ RouteOf(fn) \notin ws.routes
WsIntegrationMissing(fn) ==
  config.websocketApiId # <<>> /\ findRouteIntegration(ws.integrations, RouteOf(fn)) = {}

\* The statement ids of the REST event and of the WebSocket event of a function.
RestGrantIds(fn) ==
  {STAGE_STATEMENT_ID([functionName |-> fn], ResourceOf(fn).id, MethodOf(fn)),
   TEST_STATEMENT_ID([functionName |-> fn], ResourceOf(fn).id, MethodOf(fn))}
WsGrantIds(fn) == {WS_STATEMENT_ID([functionName |-> fn], RouteOf(fn).RouteId)}

NoCallFailed == \A c \in calls : c.res \notin {"err", "conflict"}

\* The event of a record was rewritten and its permission granted.
EventSynchronized(api, fn, ids) ==
  /\ \E w \in uriWrites : w.api = api /\ w.functionName = fn
  /\ \A sid \in ids :
       \E c \in permCalls : c.op = "addPermission" /\ c.FunctionName[1] = fn /\ c.StatementId = sid

\* C31: an event whose REST resource, WebSocket route or WebSocket
\* integration is not found is skipped: no integration read or rewrite and
\* no removePermission or addPermission is issued for it. The run goes on:
\* when no call fails it returns, the events whose objects exist are
\* rewritten and granted, and each protocol is deployed unless its deployment
\* is switched off.
C31_MissingObjectSkipsEvent ==
  \A fn \in PhysicalNames :
    /\ RestResourceMissing(fn) =>
         /\ \A c \in calls : c.fn = fn => c.op \notin {"getIntegration", "updateIntegration"}
         /\ \A w \in uriWrites : ~(w.api = "rest" /\ w.functionName = fn)
         /\ \A c \in permCalls : c.FunctionName[1] = fn => c.StatementId \notin RestGrantIds(fn)
    /\ (WsRouteMissing(fn) \/ WsIntegrationMissing(fn)) =>
         /\ \A c \in calls : c.fn = fn => c.op # "updateWsIntegration"
         /\ WsRouteMissing(fn) => \A c \in calls : c.fn = fn => c.op # "getIntegrations"
         /\ \A w \in uriWrites : ~(w.api = "ws" /\ w.functionName = fn)
         /\ \A c \in permCalls : c.FunctionName[1] = fn => c.StatementId \notin WsGrantIds(fn)
    /\ ( /\ RestResourceMissing(fn) \/ WsRouteMissing(fn) \/ WsIntegrationMissing(fn)
         /\ RecordsOf(fn) # {}
         /\ pc = "done"
         /\ NoCallFailed ) =>
         /\ outcome = "returned"
         /\ \A other \in PhysicalNames :
              RecordsOf(other) # {} =>
                /\ RestResourceMissing(other) \/ EventSynchronized("rest", other, RestGrantIds(other))
                /\ WsRouteMissing(other) \/ WsIntegrationMissing(other)
                     \/ EventSynchronized("ws", other, WsGrantIds(other))
         /\ ~config.skipApiGateway => Call("createRestDeployment", "", "ok") \in calls
         /\ ~config.skipWebSocketGateway => Call("createWsDeployment", "", "ok") \in calls

\* Runs that skipped an event of the first function for each of the three
\* reasons and returned after the second function was synchronized.
MissingAndReturned(fn) ==
  /\ pc = "done" /\ outcome = "returned"
  /\ RecordsOf(fn) # {}
  /\ \E other \in PhysicalNames \ {fn} :
       /\ EventSynchronized("rest", other, RestGrantIds(other))
       /\ EventSynchronized("ws", other, WsGrantIds(other))

C31_Witness == \E fn \in PhysicalNames : RestResourceMissing(fn) /\ MissingAndReturned(fn)
C31_WitnessRoute == \E fn \in PhysicalNames : WsRouteMissing(fn) /\ MissingAndReturned(fn)
C31_WitnessIntegration == \E fn \in PhysicalNames : WsIntegrationMissing(fn) /\ MissingAndReturned(fn)

\* ---------------------------------------------------------------- C32

\* A call of the Integration Synchronizer failed for an event of a function:
\* the integration listing or rewrite, or a permission grant.
SyncFailure(c) == c.fn \in PhysicalNames /\ c.op \in SynchronizerOps /\ Failed(c)

\* The WebSocket pass, which follows the REST pass, has begun.
WsPassBegun == \E c \in calls : c.op = "getRoutes"

\* The records that follow the record of the function.
RecordsAfter(fn) ==
  {a \in 1..Len(loc.CREATED_ALIASES) : \A b \in RecordsOf(fn) : a > b}

AddPcs == {"addStagePermission", "addTestPermission", "addWsPermission"}

\* The step is a removePermission that failed with an error other than
\* 'not found'.
RemovalFails == \E c \in calls' \ calls : c.op = "removePermission" /\ c.res = "err"

GrantPcs ==
  {"removeStagePermission", "removeTestPermission", "removeWsPermission"} \cup AddPcs

\* The grant step of the event of a function is under way, or was left by
\* a raised error.
InGrant(api, fn) ==
  /\ loc.j \in 1..Len(loc.ALIASES)
  /\ ALIAS.functionName = fn
  /\ (api = "ws") = WsPassBegun
  /\ pc \in GrantPcs \/ outcome = "raised"

\* The integration of the event was rewritten and its grant step returned.
GrantCompleted(api, fn) ==
  /\ \E w \in uriWrites : w.api = api /\ w.functionName = fn
  /\ ~InGrant(api, fn)

\* The statements on the function that carry one of the given ids.
StatementsUnder(fn, ids) ==
  {st \in policy : st.FunctionName[1] = fn /\ st.StatementId \in ids}

\* The fresh statements of the REST event and of the WebSocket event of a
\* function: their source patterns name the gateway, the stage wildcard or
\* the test-invoke stage, and the method and normalized path, or the route key.
FreshRestStatements(fn) ==
  LET target == QUALIFIED_FUNCTION_NAME([functionName |-> fn])
  IN {Statement(target, STAGE_STATEMENT_ID([functionName |-> fn], ResourceOf(fn).id, MethodOf(fn)),
                <<"arn:aws:execute-api:", REGION, ":">> \o ACCOUNT \o <<":">> \o REST_API
                \o <<"/*/">> \o MethodOf(fn) \o ResourceOf(fn).path),
      Statement(target, TEST_STATEMENT_ID([functionName |-> fn], ResourceOf(fn).id, MethodOf(fn)),
                <<"arn:aws:execute-api:", REGION, ":">> \o ACCOUNT \o <<":">> \o REST_API
                \o <<"/test-invoke-stage/">> \o MethodOf(fn) \o ResourceOf(fn).path)}

FreshWsStatements(fn) ==
  {Statement(QUALIFIED_FUNCTION_NAME([functionName |-> fn]),
             WS_STATEMENT_ID([functionName |-> fn], RouteOf(fn).RouteId),
             <<"arn:aws:execute-api:", REGION, ":">> \o ACCOUNT \o <<":">> \o WS_API
             \o <<"/*/">> \o RouteOf(fn).RouteKey)}

\* C34: every permission call of an event follows the rewrite of its
\* integration URI, and an addPermission under a statement id follows the
\* removePermission under that id; once the grant step of a rewritten event
\* has returned, the policy holds under the ids of the event exactly the
\* fresh statements: two for a REST event (stage wildcard and test-invoke
\* stage, method and normalized path), one for a WebSocket event (route key).
C34_GrantLeavesFreshStatements ==
  [][/\ \A c \in permCalls' \ permCalls :
          /\ \E w \in uriWrites :
               /\ w.functionName = c.FunctionName[1]
               /\ (w.api = "rest") = (c.StatementId \in RestGrantIds(w.functionName))
               /\ (w.api = "ws") = (c.StatementId \in WsGrantIds(w.functionName))
          /\ c.op = "addPermission" =>
               PermCall("removePermission", c.FunctionName, c.StatementId) \in permCalls
          /\ c.FunctionName = QUALIFIED_FUNCTION_NAME([functionName |-> c.FunctionName[1]])
     /\ \A fn \in PhysicalNames :
          /\ GrantCompleted("rest", fn)' =>
               /\ StatementsUnder(fn, RestGrantIds(fn))' = FreshRestStatements(fn)
               /\ Cardinality(FreshRestStatements(fn)) = 2
          /\ GrantCompleted("ws", fn)' =>
               StatementsUnder(fn, WsGrantIds(fn))' = FreshWsStatements(fn)]_vars

\* A run that replaced the grants of an earlier run: the REST and the
\* WebSocket event of the second function were rewritten and granted anew.
C34_Witness ==
  /\ pc = "done" /\ outcome = "returned"
  /\ GrantCompleted("rest", "FnB") /\ GrantCompleted("ws", "FnB")
  /\ Call("removePermission", "FnB", "ok") \in calls
  /\ GrantCompleted("rest", "FnA")

\* ---------------------------------------------------------------- C35

\* Every function that produced an alias record has had its event of the
\* protocol rewritten and granted, or skipped for want of its routing object.
AllSynchronized(api) ==
  \A a \in 1..Len(loc.CREATED_ALIASES) :
    LET fn == loc.CREATED_ALIASES[a].functionName
    IN IF api = "rest"
       THEN RestResourceMissing(fn) \/ GrantCompleted("rest", fn)
       ELSE WsRouteMissing(fn) \/ WsIntegrationMissing(fn) \/ GrantCompleted("ws", fn)

\* C35: each protocol gets at most one createDeployment in a run; it is
\* issued only when the protocol's deployment is not switched off, some
\* function produced an alias record, and the events of that protocol of
\* every such function have been rewritten and granted (or skipped); no
\* integration is rewritten and no permission changed for a protocol once
\* its deployment was requested.
C35_DeploymentAfterSynchronization ==
  [][/\ Issues("createRestDeployment", "") =>
          /\ ~Issued("createRestDeployment", "")
          /\ ~config.skipApiGateway
          /\ Len(loc.CREATED_ALIASES) > 0
          /\ AllSynchronized("rest")
     /\ Issues("createWsDeployment", "") =>
          /\ ~Issued("createWsDeployment", "")
          /\ ~config.skipWebSocketGateway
          /\ Len(loc.CREATED_ALIASES) > 0
          /\ AllSynchronized("ws")
     /\ rest'.deployments <= 2 /\ ws'.deployments <= 2
     /\ \A w \in uriWrites' \ uriWrites :
          ~Issued(IF w.api = "rest" THEN "createRestDeployment" ELSE "createWsDeployment", "")
     /\ permCalls' # permCalls =>
          ~Issued(IF WsPassBegun THEN "createWsDeployment" ELSE "createRestDeployment", "")]_vars

\* Both protocols were deployed after two functions were synchronized.
C35_Witness ==
  /\ pc = "done" /\ outcome = "returned"
  /\ Call("createRestDeployment", "", "ok") \in calls
  /\ Call("createWsDeployment", "", "ok") \in calls
  /\ Len(loc.CREATED_ALIASES) = 2
  /\ AllSynchronized("rest") /\ AllSynchronized("ws")

\* ---------------------------------------------------------------- C36

\* The cache of the run: every entry maps a normalized key to an object of
\* the listing whose path is that key, and no key has two entries.
CacheSound ==
  \A e \in config.apiGatewayResourceCache :
    /\ e.key[1] = "/"
    /\ e.value \in loc.LISTING
    /\ e.value.path = e.key
    /\ \A f \in config.apiGatewayResourceCache : f.key = e.key => f = e

\* Every lookup made so far answered with the object of the listing whose
\* path is the normalized path, or with not-found when there is none; two
\* lookups of the same normalized key had the same answer.
LookupsRight ==
  \A n \in 1..Len(probe.names) :
    LET key == NormalizePath(probe.names[n])
        hits == {res \in loc.LISTING : res.path = key}
    IN /\ probe.ids[n].found = (hits # {})
       /\ probe.ids[n].found => probe.ids[n].RESOURCE \in hits
       /\ probe.ids[n].found =>
            [key |-> key, value |-> probe.ids[n].RESOURCE] \in config.apiGatewayResourceCache
       /\ \A m \in 1..Len(probe.names) :
            NormalizePath(probe.names[m]) = key => probe.ids[m] = probe.ids[n]

RemovedAfterProbe(fn) == Probed(fn, "ok") /\ Call("updateAlias", fn, "nf") \in calls

\* C37 (as stated): createAlias is issued only when the alias probe itself
\* reported not-found; when the alias is removed between a successful probe
\* and updateAlias, the not-found error of updateAlias is raised (the
\* function is recorded as failed) and is not answered with createAlias.
C37_CreateOnlyAfterProbeNotFound ==
  \A fn \in PhysicalNames :
    /\ Issued("createAlias", fn) => Probed(fn, "nf") /\ ~Probed(fn, "ok")
    /\ RemovedAfterProbe(fn) =>
         /\ ~Issued("createAlias", fn)
         /\ pc # "createAlias"
         /\ InSeq(fn, loc.FAILED_FUNCTIONS)

\* ---------------------------------------------------------------- C38

\* C38 (as stated): in every run, forced or not, whatever fails, an alias
\* that pointed at the numbered version v before the run points at a
\* numbered version v' >= v after it.
C38_AliasNeverMovesBackward ==
  \A fn \in PhysicalNames :
    (pc = "done" /\ lambda0[fn].alias > LATEST) => lambda[fn].alias >= lambda0[fn].alias

\* ---------------------------------------------------------------- C39

\* The remote state of a function on which a run without --force, every
\* read answered, takes the SKIP branch of lines 1603-1607: the function
\* and its alias exist, so a version is listed or '$LATEST' stands in for
\* it, and haveFunctionChanges finds the version the alias points at equal
\* to the latest configuration and to the desired environment.
SkipState(fnState, environment) ==
  /\ fnState.exists
  /\ fnState.alias # NULL
  /\ VersionExists(fnState, fnState.alias)
  /\ ~ConfigsDiffer(fnState.latest, VersionConfig(fnState, fnState.alias), environment)

\* The function is one the run processes.
Processed(fn) == \E n \in 1..Len(getFunctionsForAliasDeployment) : getFunctionsForAliasDeployment[n].functionName = fn

\* The run is over and the function's pipeline succeeded: it was begun and
\* the function is not among the failed ones.
PipelineSucceeded(fn) ==
  /\ pc = "done"
  /\ \E c \in calls : c.fn = fn /\ c.op = "getAlias"
  /\ ~InSeq(fn, loc.FAILED_FUNCTIONS)

\* Nothing was issued for the function beyond the reads that lead to SKIP.
OnlyReadFor(fn) ==
  /\ \A c \in calls :
       c.fn = fn => c.op \in {"getAlias", "getFunction", "listVersionsByFunction"}
                               \cup DetectorOps
  /\ \A a \in 1..Len(loc.CREATED_ALIASES) : loc.CREATED_ALIASES[a].functionName # fn
  /\ \A w \in uriWrites : w.functionName # fn
  /\ \A c \in permCalls : c.FunctionName[1] # fn
  /\ lambda[fn] = lambda0[fn]

====
